---- MODULE Spec2Model ----
(***************************************************************************)
(* Model of the fact-extraction and association engine of the codebase     *)
(* summarizer: the per-file collectors (AuthPolicyExtractor,               *)
(* PayloadExtractor, ServiceInteractionExtractor) and the way each one     *)
(* folds its per-file findings into the collector's shared map.            *)
(*                                                                         *)
(* Source text is modelled as TLA+ strings.  A scanned file is a sequence  *)
(* of statements (route declarations, router.use calls, ...); the text of  *)
(* every argument is kept, and each detector reads that text the way its   *)
(* regular expression does.                                                *)
(***************************************************************************)
EXTENDS Integers, Sequences, FiniteSets, TLC

(***************************************************************************)
(* Text helpers (String.prototype.includes / startsWith / indexOf).        *)
(***************************************************************************)
\* characters m..n of t, the range cut to the text (String.prototype.substring)
Slice(t, m, n) ==
  LET lo == IF m < 1 THEN 1 ELSE m
      hi == IF n > Len(t) THEN Len(t) ELSE n
  IN  IF lo > hi THEN "" ELSE SubSeq(t, lo, hi)

Includes(t, p) == \E i \in 0..(Len(t) - Len(p)) : Slice(t, i + 1, i + Len(p)) = p

StartsWith(t, p) == Len(p) <= Len(t) /\ Slice(t, 1, Len(p)) = p

EndsWith(t, p) == Len(p) <= Len(t) /\ Slice(t, Len(t) - Len(p) + 1, Len(t)) = p

\* 1-based position of the first occurrence of p in t, 0 when absent
IndexOf(t, p) ==
  IF Includes(t, p)
  THEN CHOOSE i \in 1..(Len(t) - Len(p) + 1) :
         /\ Slice(t, i, i + Len(p) - 1) = p
         /\ \A j \in 1..(i - 1) : Slice(t, j, j + Len(p) - 1) # p
  ELSE 0

\* the part of t before the first occurrence of p (all of t when p is absent)
Before(t, p) == IF Includes(t, p) THEN Slice(t, 1, IndexOf(t, p) - 1) ELSE t

\* the part of t after the first occurrence of p ("" when p is absent)
After(t, p) ==
  IF Includes(t, p) THEN Slice(t, IndexOf(t, p) + Len(p), Len(t)) ELSE ""

RECURSIVE Concat(_)
Concat(ss) == IF ss = <<>> THEN <<>> ELSE Head(ss) \o Concat(Tail(ss))

RECURSIVE JoinText(_, _)
JoinText(ts, sep) ==
  IF ts = <<>> THEN ""
  ELSE IF Len(ts) = 1 THEN ts[1]
  ELSE ts[1] \o sep \o JoinText(Tail(ts), sep)

\* JavaScript's null / undefined
None == "<none>"

Lower == "abcdefghijklmnopqrstuvwxyz"

Upper == "ABCDEFGHIJKLMNOPQRSTUVWXYZ"

toUpperChar(c) ==
  IF Includes(Lower, c) THEN Slice(Upper, IndexOf(Lower, c), IndexOf(Lower, c)) ELSE c

toLowerChar(c) ==
  IF Includes(Upper, c) THEN Slice(Lower, IndexOf(Upper, c), IndexOf(Upper, c)) ELSE c

RECURSIVE toUpperCase(_)
toUpperCase(t) ==
  IF t = "" THEN "" ELSE toUpperChar(Slice(t, 1, 1)) \o toUpperCase(Slice(t, 2, Len(t)))

RECURSIVE toLowerCase(_)
toLowerCase(t) ==
  IF t = "" THEN "" ELSE toLowerChar(Slice(t, 1, 1)) \o toLowerCase(Slice(t, 2, Len(t)))

RECURSIVE trimStart(_)
trimStart(t) == IF StartsWith(t, " ") THEN trimStart(Slice(t, 2, Len(t))) ELSE t

RECURSIVE trimEnd(_)
trimEnd(t) == IF EndsWith(t, " ") THEN trimEnd(Slice(t, 1, Len(t) - 1)) ELSE t

trim(t) == trimEnd(trimStart(t))

(***************************************************************************)
(* JavaScript objects used as maps keep their keys in insertion order: an  *)
(* object is a sequence of [k, v] entries with distinct keys.              *)
(***************************************************************************)
ObjKeys(o) == {o[i].k : i \in 1..Len(o)}

ObjHas(o, key) == key \in ObjKeys(o)

ObjGet(o, key) ==
  IF ObjHas(o, key)
  THEN o[CHOOSE i \in 1..Len(o) : o[i].k = key].v
  ELSE None

ObjPut(o, key, val) ==
  IF ObjHas(o, key)
  THEN [i \in 1..Len(o) |-> IF o[i].k = key THEN [k |-> key, v |-> val] ELSE o[i]]
  ELSE Append(o, [k |-> key, v |-> val])

(***************************************************************************)
(* Route files.  A file is a sequence of statements, each a record         *)
(*   kind   "route": router.<method>('<path>', <args...>, handler);        *)
(*          "use"  : router.use(<args>);                                   *)
(*   scope  of a use call: "global"  router.use(mw)                        *)
(*                         "path"    router.use('<path>', mw)              *)
(*                         "dynamic" router.use(<path>, mw), <path> being  *)
(*                                   an identifier, not a literal          *)
(*          of a route: "local"                                            *)
(*   args   the middleware texts, as written                               *)
(*   flat   a route written on one line (TRUE) or with every argument on   *)
(*          a line of its own, as in routes/orderRoutes.js (FALSE)         *)
(*   nl     the statement starts a new line (a route always does; a use    *)
(*          call may follow the previous statement on the same line)       *)
(* Argument texts hold no quote followed by a comma, and a file holds no   *)
(* decorators, so the NestJS patterns of the extractors match nothing.     *)
(***************************************************************************)
Handler == "handler"

RouteDecl(method, path, args, flat) ==
  [kind |-> "route", method |-> method, path |-> path, scope |-> "local",
   args |-> args, flat |-> flat, nl |-> TRUE]

UseCall(scope, path, mw, nl) ==
  [kind |-> "use", method |-> "use", path |-> path, scope |-> scope,
   args |-> <<mw>>, flat |-> TRUE, nl |-> nl]

\* `${method} ${route}` with method upper-cased
fullRoute(method, route) == toUpperCase(method) \o " " \o route

\* the text between the path literal's comma and the closing parenthesis
RouteArgsText(st) == JoinText(st.args \o <<Handler>>, ", ") \o ")"

\* the text between "use(" and the end of the statement
UseArgsText(st) ==
  (CASE st.scope = "path" -> "'" \o st.path \o "', "
     [] st.scope = "dynamic" -> st.path \o ", "
     [] OTHER -> "") \o st.args[1] \o ")"

Routes(content) == SelectSeq([i \in 1..Len(content) |-> i], LAMBDA i : content[i].kind = "route")

Uses(content) == SelectSeq([i \in 1..Len(content) |-> i], LAMBDA i : content[i].kind = "use")

\* every middleware text of the file with the statement it stands in, in text order
Fragments(content) ==
  Concat([s \in 1..Len(content) |->
            [a \in 1..Len(content[s].args) |-> [s |-> s, text |-> content[s].args[a]]]])

(***************************************************************************)
(* AuthPolicyExtractor                                                     *)
(***************************************************************************)
authPatterns ==
  << <<"authMiddleware.isAuthenticated", "Authenticated">>,
     <<"authMiddleware.isAdmin", "AdminOnly">>,
     <<"authMiddleware.isOwner", "OwnerOnly">>,
     <<"authMiddleware.requireAuth", "Authenticated">>,
     <<"requireAuth", "Authenticated">>,
     <<"requireLogin", "Authenticated">>,
     <<"isAuthenticated", "Authenticated">>,
     <<"isAdmin", "AdminOnly">>,
     <<"adminAuth", "AdminOnly">>,
     <<"userAuth", "UserAuth">>,
     <<"jwtAuth", "JWT Required">>,
     <<"authenticate", "Authenticated">> >>

\* the value captured by ['"](.*?)['"]?\s*\) at the start of t, or None
QuotedArg(t) ==
  IF ~(StartsWith(t, "'") \/ StartsWith(t, "\""))
  THEN None
  ELSE LET r == Slice(t, 2, Len(t))
           Closes(n) ==
             LET rem == Slice(r, n + 1, Len(r))
             IN  \/ StartsWith(trimStart(rem), ")")
                 \/ /\ StartsWith(rem, "'") \/ StartsWith(rem, "\"")
                    /\ StartsWith(trimStart(Slice(rem, 2, Len(rem))), ")")
       IN  IF \E n \in 0..Len(r) : Closes(n)
           THEN Slice(r, 1, CHOOSE n \in 0..Len(r) :
                               Closes(n) /\ \A m \in 0..(n - 1) : ~Closes(m))
           ELSE None

\* the first name of names that t holds as a call, name(  ...  ), leftmost first
CallAt(t, i, n) ==
  /\ Slice(t, i, i + Len(n) - 1) = n
  /\ Slice(t, i + Len(n), i + Len(n)) = "("

CallHit(t, i, names) == \E k \in 1..Len(names) : CallAt(t, i, names[k])

\* the match of the name at position i
CallFound(t, i, name) == [name |-> name, rest |-> Slice(t, i + Len(name) + 1, Len(t))]

\* the first alternative that matches at position i
CallFirst(t, i, names) ==
  CallFound(t, i, names[CHOOSE k \in 1..Len(names) :
                          CallAt(t, i, names[k]) /\ \A j \in 1..(k - 1) : ~CallAt(t, i, names[j])])

CallMatch(t, names) ==
  IF \E i \in 1..Len(t) : CallHit(t, i, names)
  THEN CallFirst(t, CHOOSE i \in 1..Len(t) :
                      CallHit(t, i, names) /\ \A j \in 1..(i - 1) : ~CallHit(t, j, names),
                 names)
  ELSE [name |-> None, rest |-> ""]

\* the quoted argument of a matched call, None without a match
CallArg(m) == IF m.name = None THEN None ELSE QuotedArg(trimStart(m.rest))

\* the policy chosen from the table hits and the role and permission arguments
PolicyFrom(cleanMiddleware, hits, role, permission) ==
  IF hits # <<>> THEN hits[1][2]
  ELSE IF role # None THEN "Role: " \o role
  ELSE IF permission # None THEN "Permission: " \o permission
  ELSE IF Includes(cleanMiddleware, "auth") \/ Includes(cleanMiddleware, "Auth")
    THEN "Custom Auth"
  ELSE None

PolicyOfClean(cleanMiddleware) ==
  PolicyFrom(cleanMiddleware,
             SelectSeq(authPatterns, LAMBDA e : Includes(cleanMiddleware, e[1])),
             CallArg(CallMatch(cleanMiddleware, <<"role", "requireRole">>)),
             CallArg(CallMatch(cleanMiddleware, <<"permission", "requirePermission">>)))

extractAuthPolicyFromMiddleware(middleware) == PolicyOfClean(trim(middleware))

strategyMap ==
  << <<"local", "Local Auth">>, <<"jwt", "JWT Required">>, <<"google", "Google OAuth">>,
     <<"facebook", "Facebook OAuth">>, <<"github", "GitHub OAuth">>,
     <<"twitter", "Twitter OAuth">>, <<"linkedin", "LinkedIn OAuth">> >>

\* options is None: the model's passport calls carry no option object
extractAuthPolicyFromPassport(strategy, options) ==
  LET hits == SelectSeq(strategyMap, LAMBDA e : e[1] = strategy)
      basePolicy == IF hits # <<>> THEN hits[1][2] ELSE "Passport: " \o strategy
  IN  IF options # None /\ Includes(options, "session: false")
      THEN basePolicy \o " (Stateless)"
      ELSE basePolicy

functionMap ==
  << <<"requireAuth", "Authenticated">>, <<"requireLogin", "Authenticated">>,
     <<"authenticate", "Authenticated">>, <<"authorize", "Authorized">>,
     <<"checkAuth", "Authenticated">>, <<"verifyToken", "Token Required">>,
     <<"isAuthenticated", "Authenticated">>, <<"isAuthorized", "Authorized">> >>

normalizeCustomAuthFunction(authFunction) ==
  LET hits == SelectSeq(functionMap, LAMBDA e : e[1] = authFunction)
  IN  IF hits # <<>> THEN hits[1][2] ELSE "Custom Auth"

parseExpressJwtOptions(options) ==
  IF Includes(options, "credentialsRequired: false")
  THEN "JWT Required" \o " (Optional)"
  ELSE "JWT Required"

(***************************************************************************)
(* A detector's visit of one route key: the write it attempts.  guarded is *)
(* the `if (!this.authPolicies[fullRoute])` test; tier and src record the  *)
(* scope of the fragment that caused the visit and the statement it is in. *)
(***************************************************************************)
AuthOp(key, policy, guarded, st, src, det) ==
  [key |-> key, policy |-> policy, guarded |-> guarded,
   tier |-> st.scope, src |-> src, det |-> det]

\* findRouteContext: the first route declaration on the line the fragment
\* stands on, when its path literal is on that line ((?:.*?)$ spans no line
\* break); a file without decorators has no NestJS route to fall back on
LineStart(content, s) ==
  CHOOSE j \in 1..s : /\ (content[j].nl \/ j = 1)
                      /\ \A i \in (j + 1)..s : ~content[i].nl

findRouteContext(content, s) ==
  LET j == LineStart(content, s)
  IN  IF content[j].kind = "route" /\ content[j].flat
      THEN fullRoute(content[j].method, content[j].path)
      ELSE None

applyGlobalAuthPolicy(content, authPolicy, src, det) ==
  LET rs == Routes(content)
  IN  [i \in 1..Len(rs) |->
         AuthOp(fullRoute(content[rs[i]].method, content[rs[i]].path),
                authPolicy, TRUE, content[src], src, det)]

applyPathBasedAuthPolicy(content, basePath, authPolicy, src) ==
  LET rs == SelectSeq(Routes(content), LAMBDA r : StartsWith(content[r].path, basePath))
  IN  [i \in 1..Len(rs) |->
         AuthOp(fullRoute(content[rs[i]].method, content[rs[i]].path),
                authPolicy, TRUE, content[src], src, "conditional")]

\* /,\s*([^,)]+),\s*([^)]+)\)/ on a route's arguments: the first argument,
\* when a comma ends it before any ")" and something other than ")" follows
RouteFirstArg(rest, first) ==
  IF /\ Includes(rest, ",")
     /\ first # ""
     /\ ~Includes(first, ")")
     /\ ~StartsWith(After(rest, ","), ")")
     /\ After(rest, ",") # ""
  THEN trim(first)
  ELSE None

RouteMiddleware(st) == RouteFirstArg(RouteArgsText(st), Before(RouteArgsText(st), ","))

\* the policy of a middleware text, None when there is no text
PolicyOrNone(mw) == IF mw = None THEN None ELSE extractAuthPolicyFromMiddleware(mw)

\* the middleware text each of the three passes reads in a statement
LevelMiddleware(st, level) ==
  CASE level = "route" -> IF st.kind = "route" THEN RouteMiddleware(st) ELSE None
    [] level = "router" -> IF st.kind = "use" THEN Before(UseArgsText(st), ")") ELSE None
    [] level = "conditional" ->
         IF st.kind = "use" /\ st.scope = "path" THEN Before(st.args[1], ")") ELSE None

\* the visits a pass makes for statement i once its policy is known
LevelOps(content, level, i, authPolicy) ==
  IF authPolicy = None THEN <<>>
  ELSE CASE level = "route" ->
              <<AuthOp(fullRoute(content[i].method, content[i].path), authPolicy, FALSE,
                       content[i], i, "route")>>
         [] level = "router" -> applyGlobalAuthPolicy(content, authPolicy, i, "router")
         [] level = "conditional" ->
              applyPathBasedAuthPolicy(content, content[i].path, authPolicy, i)

\* one pass over the statements
LevelPass(content, level) ==
  Concat([i \in 1..Len(content) |->
            LevelOps(content, level, i, PolicyOrNone(LevelMiddleware(content[i], level)))])

ExpressLevels == <<"route", "router", "conditional">>

analyzeExpressMiddleware(content) ==
  Concat([l \in 1..Len(ExpressLevels) |-> LevelPass(content, ExpressLevels[l])])

\* the visit made for a fragment whose call matched and whose line has a route
FragmentOp(content, f, hit, routeContext, policy, det) ==
  IF hit /\ routeContext # None
  THEN <<AuthOp(routeContext, policy, FALSE, content[f.s], f.s, det)>>
  ELSE <<>>

\* the policy of a passport strategy, None without one
PassportPolicy(strategy) ==
  IF strategy = None THEN None ELSE extractAuthPolicyFromPassport(strategy, None)

\* the strategy named by a matched passport.authenticate call
StrategyOf(m) == IF m.name = None THEN None ELSE QuotedArg(m.rest)

\* m matched with its closing parenthesis
Closed(m) == m.name # None /\ Includes(m.rest, ")")

\* "Role: " and the role, None without one
RolePolicy(role) == IF role = None THEN None ELSE "Role: " \o role

\* the policy of a matched custom call, None without a closed match
CustomPolicy(m) == IF Closed(m) THEN normalizeCustomAuthFunction(m.name) ELSE None

\* the policy of a matched JWT call, None without a closed match
JwtPolicy(m) == IF Closed(m) THEN "JWT Required" ELSE None

\* the visit made for a fragment from the policy read in it, None without one
PolicyOp(content, f, policy, det) ==
  FragmentOp(content, f, policy # None, findRouteContext(content, f.s), policy, det)

\* one pass over the fragments, matching the calls of one pattern
FragmentPass(content, fr, det) ==
  Concat([n \in 1..Len(fr) |->
    CASE det = "passport" ->
           PolicyOp(content, fr[n],
                    PassportPolicy(StrategyOf(CallMatch(fr[n].text, <<"passport.authenticate">>))),
                    det)
      [] det = "custom" ->
           PolicyOp(content, fr[n],
                    CustomPolicy(CallMatch(fr[n].text,
                      <<"requireAuth", "requireLogin", "authenticate", "authorize",
                        "checkAuth", "verifyToken", "isAuthenticated", "isAuthorized">>)),
                    det)
      [] det = "role" ->
           PolicyOp(content, fr[n],
                    RolePolicy(CallArg(CallMatch(fr[n].text,
                      <<"requireRole", "hasRole", "checkRole", "requirePermission">>))),
                    det)
      [] det = "jwt" ->
           PolicyOp(content, fr[n],
                    JwtPolicy(CallMatch(fr[n].text,
                      <<"jwt", "jwtAuth", "verifyJWT", "checkJWT", "requireJWT",
                        "authenticateJWT">>)),
                    det)])

analyzePassportStrategies(content) == FragmentPass(content, Fragments(content), "passport")

analyzeCustomAuthMiddleware(content) ==
  FragmentPass(content, Fragments(content), "custom")
    \o FragmentPass(content, Fragments(content), "role")

findRoutesUsingExpressJwt(content, authPolicy, src) ==
  applyGlobalAuthPolicy(content, authPolicy, src, "expressJwt")

\* the option object of a matched expressJwt call, None without one
JwtOptionsText(rest, body) ==
  IF StartsWith(trimStart(rest), "{") /\ Includes(body, "}") /\ Before(body, "}") # ""
  THEN Before(body, "}")
  ELSE None

JwtOptions(m) == IF m.name = None THEN None ELSE JwtOptionsText(m.rest, After(m.rest, "{"))

\* the visits made for an expressJwt call with its options
ExpressJwtOps(content, f, options) ==
  IF options # None
  THEN findRoutesUsingExpressJwt(content, parseExpressJwtOptions(options), f.s)
  ELSE <<>>

ExpressJwtPass(content, fr) ==
  Concat([n \in 1..Len(fr) |->
            ExpressJwtOps(content, fr[n], JwtOptions(CallMatch(fr[n].text, <<"expressJwt">>)))])

analyzeJWTMiddleware(content) ==
  FragmentPass(content, Fragments(content), "jwt") \o ExpressJwtPass(content, Fragments(content))

\* the visits analyzeRouteFile makes for one file's text, in the order made
analyzeRouteFile(content) ==
  analyzeExpressMiddleware(content)
    \o analyzePassportStrategies(content)
    \o analyzeCustomAuthMiddleware(content)
    \o analyzeJWTMiddleware(content)

\* one visit applied to the shared map this.authPolicies
AuthWrites(policies, op) ==
  ~op.guarded \/ ~ObjHas(policies, op.key) \/ ObjGet(policies, op.key) = ""

ApplyAuthOp(policies, op) ==
  IF AuthWrites(policies, op) THEN ObjPut(policies, op.key, op.policy) ELSE policies

RECURSIVE ApplyAuthOps(_, _)
ApplyAuthOps(policies, ops) ==
  IF ops = <<>> THEN policies
  ELSE ApplyAuthOps(ApplyAuthOp(policies, Head(ops)), Tail(ops))

(***************************************************************************)
(* PayloadExtractor.  Beside route declarations a route file may hold      *)
(*   kind "joi": const <path> = Joi.object({<args[1]>});                   *)
(*        "dto": interface <path> {<args[1]>}                              *)
(* each on a line of its own.  A payload shape {request, response} is a    *)
(* pair of objects, each a sequence of [k, v] fields in insertion order.   *)
(* Route declarations close their path literal with a quote and a comma,   *)
(* so the pattern of analyzeSwaggerDocs, which wants "]" right after the   *)
(* quote, matches none; analyzeYupValidation parses and links nothing.     *)
(***************************************************************************)
JoiDecl(name, body) ==
  [kind |-> "joi", method |-> "const", path |-> name, scope |-> "none",
   args |-> <<body>>, flat |-> TRUE, nl |-> TRUE]

DtoDecl(name, body) ==
  [kind |-> "dto", method |-> "interface", path |-> name, scope |-> "none",
   args |-> <<body>>, flat |-> TRUE, nl |-> TRUE]

IdentChars == Lower \o Upper \o "0123456789_"

\* the longest run of [a-zA-Z0-9_] that ends t / that starts t
RECURSIVE IdentSuffix(_)
IdentSuffix(t) ==
  IF t # "" /\ Includes(IdentChars, Slice(t, Len(t), Len(t)))
  THEN IdentSuffix(Slice(t, 1, Len(t) - 1)) \o Slice(t, Len(t), Len(t))
  ELSE ""

RECURSIVE IdentPrefix(_)
IdentPrefix(t) ==
  IF t # "" /\ Includes(IdentChars, Slice(t, 1, 1))
  THEN Slice(t, 1, 1) \o IdentPrefix(Slice(t, 2, Len(t)))
  ELSE ""

\* String.prototype.split(sep)
RECURSIVE Split(_, _)
Split(t, sep) ==
  IF Includes(t, sep) THEN <<Before(t, sep)>> \o Split(After(t, sep), sep) ELSE <<t>>

\* Object.assign(target, source) on two field objects
RECURSIVE ObjAssign(_, _)
ObjAssign(target, source) ==
  IF source = <<>> THEN target
  ELSE ObjAssign(ObjPut(target, Head(source).k, Head(source).v), Tail(source))

typeMap == {"string", "number", "boolean", "date", "array", "object"}

normalizeJoiType(joiType) ==
  IF toLowerCase(joiType) \in typeMap THEN toLowerCase(joiType) ELSE joiType

\* /([a-zA-Z0-9_]+):\s*Joi\.(\w+)\(\)/g on one comma-separated part: the
\* field name before the colon, the value after it and the Joi type it names
JoiField(part, fieldName, value, joiType) ==
  IF /\ Includes(part, ":") /\ fieldName # ""
     /\ StartsWith(value, "Joi.") /\ joiType # ""
     /\ StartsWith(Slice(value, Len("Joi.") + Len(joiType) + 1, Len(value)), "()")
  THEN <<[k |-> fieldName, v |-> normalizeJoiType(joiType)]>>
  ELSE <<>>

JoiFields(parts) ==
  Concat([i \in 1..Len(parts) |->
            JoiField(parts[i], IdentSuffix(Before(parts[i], ":")),
                     trimStart(After(parts[i], ":")),
                     IdentPrefix(After(trimStart(After(parts[i], ":")), "Joi.")))])

\* the pattern over a schema body whose fields are separated by commas
parseJoiSchema(schemaDefinition) == ObjAssign(<<>>, JoiFields(Split(schemaDefinition, ",")))

\* the section's schema read in the text open that follows `<section>:`,
\* inner being what follows its brace
SectionSchema(found, open, inner) ==
  IF /\ found
     /\ StartsWith(open, "Joi.object")
     /\ StartsWith(trimStart(After(open, "Joi.object")), "(")
     /\ Includes(inner, "}") /\ Before(inner, "}") # ""
  THEN parseJoiSchema(Before(inner, "}"))
  ELSE <<>>

\* /<section>:\s*Joi\.object\s*\(\s*\{([^}]+)\}/ on a celebrate definition
CelebrateSection(validationDefinition, section) ==
  SectionSchema(Includes(validationDefinition, section \o ":"),
                trimStart(After(validationDefinition, section \o ":")),
                After(After(validationDefinition, section \o ":"), "{"))

Sections == <<"body", "query", "params">>

\* Object.assign of the three sections' schemas, in the order read
SectionsRequest(schemas) == ObjAssign(ObjAssign(schemas[1], schemas[2]), schemas[3])

parseCelebrateValidation(validationDefinition) ==
  [request |-> SectionsRequest([i \in 1..Len(Sections) |->
                                  CelebrateSection(validationDefinition, Sections[i])]),
   response |-> <<>>]

\* every part of the texts, cut at sep
SplitAll(texts, sep) == Concat([i \in 1..Len(texts) |-> Split(texts[i], sep)])

\* the field read in one part: left is the text before its colon
InterfaceField(part, left, isOptional, fieldType) ==
  IF /\ Includes(part, ":") /\ After(part, ":") # ""
     /\ IdentSuffix(IF isOptional THEN Slice(left, 1, Len(left) - 1) ELSE left) # ""
  THEN <<[k |-> IdentSuffix(IF isOptional THEN Slice(left, 1, Len(left) - 1) ELSE left),
          v |-> IF isOptional THEN fieldType \o " (optional)" ELSE fieldType]>>
  ELSE <<>>

InterfaceFields(parts) ==
  Concat([i \in 1..Len(parts) |->
            InterfaceField(parts[i], Before(parts[i], ":"), EndsWith(Before(parts[i], ":"), "?"),
                           trim(After(parts[i], ":")))])

\* /([a-zA-Z0-9_]+)(\?)?:\s*([^;,\n]+)/g over an interface body: a field's
\* type ends at a semicolon, a comma or a line break
parseTypeScriptInterface(interfaceDefinition) ==
  ObjAssign(<<>>,
            InterfaceFields(SplitAll(SplitAll(Split(interfaceDefinition, ";"), ","), "\n")))

\* the type parseObjectLiteral infers from a value text
Digits == "0123456789"

LiteralType(fieldValue) ==
  IF StartsWith(fieldValue, "\"") \/ StartsWith(fieldValue, "'") THEN "string"
  ELSE IF fieldValue = "" \/ \A i \in 1..Len(fieldValue) : Includes(Digits, Slice(fieldValue, i, i))
    THEN "number"
  ELSE IF fieldValue = "true" \/ fieldValue = "false" THEN "boolean"
  ELSE "unknown"

\* the field read in one part of an object literal
LiteralField(part, fieldName) ==
  IF Includes(part, ":") /\ fieldName # "" /\ After(part, ":") # ""
  THEN <<[k |-> fieldName, v |-> LiteralType(trim(After(part, ":")))]>>
  ELSE <<>>

LiteralFields(parts) ==
  Concat([i \in 1..Len(parts) |-> LiteralField(parts[i], IdentSuffix(Before(parts[i], ":")))])

\* /([a-zA-Z0-9_]+):\s*([^,}]+)/g over the text of an object literal
parseObjectLiteral(objectContent) == ObjAssign(<<>>, LiteralFields(Split(objectContent, ",")))

\* analyzeHandlerCode: the fields it writes to payload.request and
\* payload.response.  /\{\s*([^}]+)\s*\}\s*=\s*req\.body/ takes the text from
\* the first "{" whose next "}" is followed by "= req.body"; res.json({...})
\* is read once (the model's handlers call it at most once)
RECURSIVE BodyDestructure(_), BodyDestructureAt(_, _)
BodyDestructure(code) ==
  IF ~Includes(code, "{") THEN None
  ELSE BodyDestructureAt(After(code, "{"), trimStart(After(After(code, "{"), "}")))

\* the match attempted on the text inner that follows a brace, tail being
\* what follows the closing brace
BodyDestructureAt(inner, tail) ==
  IF /\ Includes(inner, "}") /\ Before(inner, "}") # ""
     /\ StartsWith(tail, "=")
     /\ StartsWith(trimStart(Slice(tail, 2, Len(tail))), "req.body")
  THEN trimStart(Before(inner, "}"))
  ELSE BodyDestructure(inner)

\* `fields.forEach(field => payload.request[field] = 'unknown')`
UnknownFields(fields) ==
  ObjAssign(<<>>, [i \in 1..Len(fields) |-> [k |-> trim(fields[i]), v |-> "unknown"]])

\* `bodyDestructure[1].split(',')`, nothing without a match
DestructuredNames(m) == IF m = None THEN <<>> ELSE Split(m, ",")

HandlerRequest(handlerCode) == UnknownFields(DestructuredNames(BodyDestructure(handlerCode)))

\* the object literal of the res.json call: call is the text after res.json,
\* inner what follows its brace
JsonLiteral(found, call, inner) ==
  IF /\ found
     /\ StartsWith(call, "(")
     /\ StartsWith(trimStart(Slice(call, 2, Len(call))), "{")
     /\ Includes(inner, "}") /\ Before(inner, "}") # ""
  THEN parseObjectLiteral(Before(inner, "}"))
  ELSE <<>>

HandlerResponse(handlerCode) ==
  JsonLiteral(Includes(handlerCode, "res.json"), trimStart(After(handlerCode, "res.json")),
              After(After(handlerCode, "res.json"), "{"))

extractRouteFromInterfaceName(interfaceName) ==
  LET RECURSIVE StripAll(_)
      StripAll(t) ==
        LET at == {i \in 1..Len(t) : \E w \in {"Request", "Response", "DTO"} :
                                       Slice(t, i, i + Len(w) - 1) = w}
        IN  IF at = {} THEN t
            ELSE LET i == CHOOSE i \in at : \A j \in at : i <= j
                     w == CHOOSE w \in {"Request", "Response", "DTO"} :
                            Slice(t, i, i + Len(w) - 1) = w
                 IN  Slice(t, 1, i - 1) \o StripAll(Slice(t, i + Len(w), Len(t)))
      noKind == StripAll(interfaceName)
      verbs == <<"Create", "Update", "Delete", "Get">>
      hits == SelectSeq(verbs, LAMBDA w : StartsWith(noKind, w))
  IN  toLowerCase(IF hits # <<>> THEN Slice(noKind, Len(hits[1]) + 1, Len(noKind)) ELSE noKind)

\* route.replace(/[^\w]/g, '')
RECURSIVE WordChars(_)
WordChars(t) ==
  IF t = "" THEN ""
  ELSE (IF Includes(IdentChars, Slice(t, 1, 1)) THEN Slice(t, 1, 1) ELSE "")
         \o WordChars(Slice(t, 2, Len(t)))


(***************************************************************************)
(* A detector's visit of one route key.  Every visit first creates the     *)
(* key's {request: {}, response: {}} when the key is absent; then it       *)
(* either Object.assign-s its request / response fields into the stored    *)
(* objects (replace = FALSE) or, as analyzeCelebrateValidation does with   *)
(* Object.assign(this.payloads[routeContext], payload), puts its own       *)
(* request and response objects in their place (replace = TRUE).           *)
(***************************************************************************)
EmptyPayload == [request |-> <<>>, response |-> <<>>]

PayOp(key, replace, request, response, src, det) ==
  [key |-> key, replace |-> replace, request |-> request, response |-> response,
   src |-> src, det |-> det]

\* the visit made for a route from its handler code
HandlerOp(st, handlerCode, src) ==
  PayOp(fullRoute(st.method, st.path), FALSE,
        HandlerRequest(handlerCode), HandlerResponse(handlerCode), src, "express")

\* router.<method>('<path>', <handlerCode>): handlerCode runs to the first ")"
ExpressRouteOps(content, rs) ==
  [i \in 1..Len(rs) |->
     HandlerOp(content[rs[i]], Before(RouteArgsText(content[rs[i]]), ")"), rs[i])]

analyzeExpressRoutes(content) == ExpressRouteOps(content, Routes(content))

\* the fragment f names the schema
UsesSchema(content, f, schemaName) ==
  \/ Includes(f.text, schemaName)
  \/ content[f.s].kind = "joi" /\ content[f.s].path = schemaName

\* the visit made for a usage whose line has a route
UsageOp(routeContext, schema, src, det) ==
  IF routeContext = None THEN <<>> ELSE <<PayOp(routeContext, FALSE, schema, <<>>, src, det)>>

SchemaUsages(content, fs, schemaName, schema, det) ==
  Concat([i \in 1..Len(fs) |->
            IF UsesSchema(content, fs[i], schemaName)
            THEN UsageOp(findRouteContext(content, fs[i].s), schema, fs[i].s, det)
            ELSE <<>>])

\* every occurrence of schemaName in the file, resolved by findRouteContext
linkSchemaToRoutes(content, schemaName, schema, det) ==
  SchemaUsages(content, Fragments(content), schemaName, schema, det)

\* const <name>Schema = Joi.object({ ... }) declarations, in text order
analyzeJoiValidation(content) ==
  Concat([s \in 1..Len(content) |->
    IF content[s].kind = "joi" /\ EndsWith(content[s].path, "Schema")
         /\ Len(content[s].path) > Len("Schema") /\ content[s].args[1] # ""
    THEN linkSchemaToRoutes(content, content[s].path,
                            parseJoiSchema(content[s].args[1]), "joi")
    ELSE <<>>])

\* the visit made for a celebrate call whose line has a route
CelebrateOp(routeContext, payload, src) ==
  IF routeContext # None
  THEN <<PayOp(routeContext, TRUE, payload.request, payload.response, src, "celebrate")>>
  ELSE <<>>

\* the match attempted in the fragment f: call is the text after `celebrate`,
\* open what follows its parenthesis
CelebrateMatch(content, f, call, open) ==
  IF /\ Includes(f.text, "celebrate") /\ StartsWith(call, "(")
     /\ StartsWith(open, "{")
     /\ Includes(Slice(open, 2, Len(open)), "}")
     /\ Before(Slice(open, 2, Len(open)), "}") # ""
  THEN CelebrateOp(findRouteContext(content, f.s),
                   parseCelebrateValidation(Before(Slice(open, 2, Len(open)), "}")), f.s)
  ELSE <<>>

CelebrateMatches(content, fs) ==
  Concat([i \in 1..Len(fs) |->
            CelebrateMatch(content, fs[i], trimStart(After(fs[i].text, "celebrate")),
                           trimStart(Slice(trimStart(After(fs[i].text, "celebrate")), 2,
                                           Len(fs[i].text))))])

\* celebrate({ ... : the definition runs from the brace to the first "}"
analyzeCelebrateValidation(content) == CelebrateMatches(content, Fragments(content))

\* the visit made for a route whose path fits the hint
DtoLink(st, routeHint, interfaceName, interfaceSchema, src) ==
  IF Includes(st.path, routeHint) \/ Includes(routeHint, WordChars(st.path))
  THEN <<PayOp(fullRoute(st.method, st.path), FALSE,
               IF Includes(interfaceName, "Request") THEN interfaceSchema ELSE <<>>,
               IF ~Includes(interfaceName, "Request") /\ Includes(interfaceName, "Response")
               THEN interfaceSchema ELSE <<>>,
               src, "dto")>>
  ELSE <<>>

DtoLinks(content, rs, routeHint, interfaceName, interfaceSchema, src) ==
  IF routeHint = "" THEN <<>>
  ELSE Concat([i \in 1..Len(rs) |->
                 DtoLink(content[rs[i]], routeHint, interfaceName, interfaceSchema, src)])

\* the routes whose path fits the hint drawn from the interface name
linkTypeScriptDTOToRoutes(content, interfaceName, interfaceSchema, src) ==
  DtoLinks(content, Routes(content), extractRouteFromInterfaceName(interfaceName),
           interfaceName, interfaceSchema, src)

\* interface <Name>(Request|Response|DTO) { ... } declarations, in text order
\* (the files hold no `type` aliases)
analyzeTypeScriptDTOs(content) ==
  Concat([s \in 1..Len(content) |->
    IF /\ content[s].kind = "dto" /\ content[s].args[1] # ""
       /\ \E w \in {"Request", "Response", "DTO"} :
            EndsWith(content[s].path, w) /\ Len(content[s].path) > Len(w)
    THEN linkTypeScriptDTOToRoutes(content, content[s].path,
                                   parseTypeScriptInterface(content[s].args[1]), s)
    ELSE <<>>])

\* PayloadExtractor.analyzeRouteFile: its detectors in the order they run
analyzeRouteFilePayloads(content) ==
  analyzeExpressRoutes(content) \o analyzeJoiValidation(content)
    \o analyzeCelebrateValidation(content) \o analyzeTypeScriptDTOs(content)

ApplyPayOp(payloads, op) ==
  LET old == IF ObjHas(payloads, op.key) THEN ObjGet(payloads, op.key) ELSE EmptyPayload
      new == IF op.replace
             THEN [request |-> op.request, response |-> op.response]
             ELSE [request |-> ObjAssign(old.request, op.request),
                   response |-> ObjAssign(old.response, op.response)]
  IN  ObjPut(payloads, op.key, new)

RECURSIVE ApplyPayOps(_, _)
ApplyPayOps(payloads, ops) ==
  IF ops = <<>> THEN payloads
  ELSE ApplyPayOps(ApplyPayOp(payloads, Head(ops)), Tail(ops))

(***************************************************************************)
(* ServiceInteractionExtractor.  A service file is [filename, content]:    *)
(* the base name without extension and the text, whose patterns are read   *)
(* on the text itself.                                                     *)
(***************************************************************************)
\* \s* : the text without its leading blanks and line breaks
RECURSIVE SkipSpace(_)
SkipSpace(t) ==
  IF StartsWith(t, " ") \/ StartsWith(t, "\n") THEN SkipSpace(Slice(t, 2, Len(t))) ELSE t

\* the text from its first [A-Za-z0-9_] character on
RECURSIVE SkipNonIdent(_)
SkipNonIdent(t) ==
  IF t = "" \/ Includes(IdentChars, Slice(t, 1, 1)) THEN t
  ELSE SkipNonIdent(Slice(t, 2, Len(t)))

\* [\w.]+\( at the start of t: the text after the parenthesis, None if no match
RECURSIVE AfterChain(_, _)
AfterChain(t, n) ==
  IF t # "" /\ Includes(IdentChars \o ".", Slice(t, 1, 1))
  THEN AfterChain(Slice(t, 2, Len(t)), n + 1)
  ELSE IF n > 0 /\ StartsWith(t, "(") THEN Slice(t, 2, Len(t)) ELSE None

\* where the word w ends when read as [A-Za-z0-9_]+(?:Service|Controller),
\* the first part taken greedily; 0 when it cannot be read so
NameEnd(w) ==
  LET ends == {i + Len(sfx) - 1 : i \in 2..Len(w), sfx \in {"Service", "Controller"}}
      ok == {e \in ends : e <= Len(w) /\ \E sfx \in {"Service", "Controller"} :
                            e - Len(sfx) >= 1 /\ Slice(w, e - Len(sfx) + 1, e) = sfx}
  IN  IF ok = {} THEN 0 ELSE CHOOSE e \in ok : \A x \in ok : x <= e

\* where w ends when read as (\w+Service|\w+Controller): the first
\* alternative that matches wins, each taken greedily
AltEnd(w) ==
  LET EndsOf(sfx) == {e \in (Len(sfx) + 1)..Len(w) : Slice(w, e - Len(sfx) + 1, e) = sfx}
      Last(S) == CHOOSE e \in S : \A x \in S : x <= e
  IN  IF EndsOf("Service") # {} THEN Last(EndsOf("Service"))
      ELSE IF EndsOf("Controller") # {} THEN Last(EndsOf("Controller"))
      ELSE 0

IsQuote(c) == c = "'" \/ c = "\""

NoPath == [path |-> None, rest |-> ""]

\* ['"](.*?)['"] at the start of t: [path, rest], NoPath if no match
QuotedPath(t) ==
  LET body == Slice(t, 2, Len(t))
      line == Before(body, "\n")
      ends == {i \in 1..Len(line) : IsQuote(Slice(line, i, i))}
      e == CHOOSE i \in ends : \A j \in ends : i <= j
  IN  IF t # "" /\ IsQuote(Slice(t, 1, 1)) /\ ends # {}
      THEN [path |-> Slice(body, 1, e - 1), rest |-> Slice(body, e + 1, Len(body))]
      ELSE NoPath

\* the suffix appended to every name, whatever it holds
normalizeServiceName_append(name) ==
  toUpperChar(Slice(name, 1, 1)) \o Slice(name, 2, Len(name)) \o "Service"

\* the capitalized name, with Service appended when the tests let it through
EnsureSuffix(normalized, lower) ==
  IF Includes(lower, "service") \/ Includes(lower, "controller")
  THEN normalized
  ELSE IF EndsWith(normalized, "Service") \/ EndsWith(normalized, "Controller")
    THEN normalized
  ELSE normalized \o "Service"

normalizeServiceName(name) ==
  EnsureSuffix(toUpperChar(Slice(name, 1, 1)) \o Slice(name, 2, Len(name)),
               toLowerCase(toUpperChar(Slice(name, 1, 1)) \o Slice(name, 2, Len(name))))

\* /(?:export\s+)?class\s+([A-Za-z0-9_]+(?:Service|Controller))/
RECURSIVE ClassMatch(_), ClassMatchAt(_, _)
ClassMatch(content) ==
  IF ~Includes(content, "class") THEN None
  ELSE ClassMatchAt(After(content, "class"), SkipSpace(After(content, "class")))

\* the match attempted on the text u that follows `class`, s being u without
\* its leading blanks
ClassMatchAt(u, s) ==
  IF s # u /\ NameEnd(IdentPrefix(s)) > 0
  THEN Slice(IdentPrefix(s), 1, NameEnd(IdentPrefix(s)))
  ELSE ClassMatch(u)

\* the class name when there is one, else the capitalized file name if it
\* holds service or controller
NameOrFilename(classMatch, filename, lower) ==
  IF classMatch # None THEN classMatch
  ELSE IF Includes(lower, "service") \/ Includes(lower, "controller")
    THEN toUpperChar(Slice(filename, 1, 1)) \o Slice(filename, 2, Len(filename))
  ELSE None

extractServiceName(filename, content) ==
  NameOrFilename(ClassMatch(content), filename, toLowerCase(filename))

isServiceImport(importPath) ==
  \E w \in {"service", "Service", "controller", "Controller", "/services/"} :
    Includes(importPath, w)

\* `parts[parts.length - 1]`
LastPart(parts) == parts[Len(parts)]

\* `filename.replace(/\.(js|ts)$/, '')`
CleanName(filename) ==
  IF EndsWith(filename, ".js") \/ EndsWith(filename, ".ts")
  THEN Slice(filename, 1, Len(filename) - 3) ELSE filename

\* the normalized name of a file name that holds Service or Controller
NameFromClean(cleanName) ==
  IF Includes(cleanName, "Service") \/ Includes(cleanName, "Controller")
  THEN normalizeServiceName(cleanName) ELSE None

extractServiceNameFromPath(importPath) ==
  NameFromClean(CleanName(LastPart(Split(importPath, "/"))))

\* `if (serviceName) dependencies.add(serviceName)`
AddName(serviceName) == IF serviceName # None /\ serviceName # "" THEN <<serviceName>> ELSE <<>>

\* the names a list of import paths adds to the dependencies
FromPaths(paths) ==
  Concat([i \in 1..Len(paths) |->
            IF isServiceImport(paths[i]) THEN AddName(extractServiceNameFromPath(paths[i]))
            ELSE <<>>])

\* .*?from\s+['"](.*?)['"] on the rest of a line: [path, rest], NoPath if no match
RECURSIVE FromClause(_), FromClauseAt(_, _)
FromClause(t) ==
  IF ~Includes(Before(t, "\n"), "from") THEN NoPath
  ELSE FromClauseAt(After(t, "from"), QuotedPath(SkipSpace(After(t, "from"))))

\* the quoted path q read after the blanks that follow `from` in x
FromClauseAt(x, q) == IF SkipSpace(x) # x /\ q # NoPath THEN q ELSE FromClause(x)

\* /import\s+.*?from\s+['"](.*?)['"]/g : the paths, in text order
RECURSIVE ImportPaths(_), ImportPathsAt(_, _)
ImportPaths(content) ==
  IF ~Includes(content, "import") THEN <<>>
  ELSE ImportPathsAt(After(content, "import"), FromClause(SkipSpace(After(content, "import"))))

\* the from clause m read after the blanks that follow `import` in u
ImportPathsAt(u, m) ==
  IF SkipSpace(u) # u /\ m # NoPath THEN <<m.path>> \o ImportPaths(m.rest) ELSE ImportPaths(u)

\* /require\s*\(\s*['"](.*?)['"]\s*\)/g : the paths, in text order
RECURSIVE RequirePaths(_), RequirePathsAt(_, _), RequirePathsIn(_, _)
RequirePaths(content) ==
  IF ~Includes(content, "require") THEN <<>>
  ELSE RequirePathsAt(After(content, "require"), SkipSpace(After(content, "require")))

\* the match attempted on the text u that follows `require`, s being u
\* without its leading blanks
RequirePathsAt(u, s) ==
  IF StartsWith(s, "(") THEN RequirePathsIn(u, QuotedPath(SkipSpace(Slice(s, 2, Len(s)))))
  ELSE RequirePaths(u)

\* the quoted path q read after the parenthesis
RequirePathsIn(u, q) ==
  IF q # NoPath /\ StartsWith(SkipSpace(q.rest), ")")
  THEN <<q.path>> \o RequirePaths(q.rest)
  ELSE RequirePaths(u)

analyzeImports(content) == FromPaths(ImportPaths(content) \o RequirePaths(content))

\* /constructor\s*\([^)]*\)\s*{([^}]+)}/ : the body of the first match
RECURSIVE ConstructorBody(_), ConstructorBodyAt(_, _)
ConstructorBody(content) ==
  IF ~Includes(content, "constructor") THEN None
  ELSE ConstructorBodyAt(After(content, "constructor"),
                         SkipSpace(After(SkipSpace(After(content, "constructor")), ")")))

\* the match attempted on the text u that follows `constructor`, open being
\* what follows its parameter list
ConstructorBodyAt(u, open) ==
  LET inner == Slice(open, 2, Len(open))
  IN  IF /\ StartsWith(SkipSpace(u), "(") /\ Includes(u, ")")
         /\ StartsWith(open, "{")
         /\ Includes(inner, "}") /\ Before(inner, "}") # ""
      THEN Before(inner, "}")
      ELSE ConstructorBody(u)

\* /this\.(\w*[Ss]ervice\w*)\s*=/g over the constructor body
RECURSIVE InjectionMatches(_), InjectionMatchesAt(_, _)
InjectionMatches(body) ==
  IF ~Includes(body, "this.") THEN <<>>
  ELSE InjectionMatchesAt(After(body, "this."), IdentPrefix(After(body, "this.")))

\* the word w read at the start of the text u that follows `this.`
InjectionMatchesAt(u, w) ==
  LET rest == Slice(u, Len(w) + 1, Len(u))
  IN  IF (Includes(w, "service") \/ Includes(w, "Service"))
           /\ StartsWith(SkipSpace(rest), "=")
      THEN <<w>> \o InjectionMatches(rest)
      ELSE InjectionMatches(u)

\* /(\w+Service|\w+Controller)/g over a text
RECURSIVE ServiceParams(_), ServiceParamsAt(_, _, _)
ServiceParams(t) ==
  ServiceParamsAt(SkipNonIdent(t), IdentPrefix(SkipNonIdent(t)),
                  AltEnd(IdentPrefix(SkipNonIdent(t))))

\* the word w that starts the text u, e being where its match ends
ServiceParamsAt(u, w, e) ==
  IF u = "" THEN <<>>
  ELSE IF e > 0 THEN <<Slice(w, 1, e)>> \o ServiceParams(Slice(u, e + 1, Len(u)))
  ELSE ServiceParams(Slice(u, Len(w) + 1, Len(u)))

\* /constructor\s*\([^)]*(\w+Service|\w+Controller)[^)]*\)/g : the service
\* words of every parameter list that holds one
RECURSIVE ParamMatches(_), ParamMatchesAt(_, _)
ParamMatches(content) ==
  IF ~Includes(content, "constructor") THEN <<>>
  ELSE ParamMatchesAt(After(content, "constructor"),
                      ServiceParams(Before(Slice(SkipSpace(After(content, "constructor")), 2,
                                                 Len(content)), ")")))

\* the match attempted on the text u that follows `constructor`, found being
\* the service words of its parameter list
ParamMatchesAt(u, found) ==
  IF StartsWith(SkipSpace(u), "(") /\ Includes(u, ")") /\ found # <<>>
  THEN found \o ParamMatches(After(u, ")"))
  ELSE ParamMatches(u)

\* the assignments of the constructor body, when there is one
Injected(body) == IF body = None THEN <<>> ELSE InjectionMatches(body)

\* `this.normalizeServiceName(match[1])` for each match
NormalizeAll(names) == [i \in 1..Len(names) |-> normalizeServiceName(names[i])]

analyzeConstructorInjections(content) ==
  NormalizeAll(Injected(ConstructorBody(content)) \o ParamMatches(content))

\* /new\s+([A-Za-z0-9_]+(?:Service|Controller))\s*\(/g
RECURSIVE analyzeDirectInstantiations(_), InstantiationAt(_, _, _)
analyzeDirectInstantiations(content) ==
  IF ~Includes(content, "new") THEN <<>>
  ELSE InstantiationAt(After(content, "new"), SkipSpace(After(content, "new")),
                       IdentPrefix(SkipSpace(After(content, "new"))))

\* the match attempted on the text u that follows `new`: s is u without its
\* leading blanks, w the word s starts with
InstantiationAt(u, s, w) ==
  LET rest == Slice(s, Len(w) + 1, Len(s))
  IN  IF /\ s # u /\ NameEnd(w) = Len(w) /\ w # ""
         /\ StartsWith(SkipSpace(rest), "(")
      THEN <<w>> \o analyzeDirectInstantiations(rest)
      ELSE analyzeDirectInstantiations(u)

\* /this\.(\w*[Ss]ervice\w*)\.[\w.]+\(/g
\* the text t without the word it starts with
IdentSuffixRest(t) == Slice(t, Len(IdentPrefix(t)) + 1, Len(t))

\* `\.[\w.]+\(` at the start of rest: the text after it, None if no match
AfterCall(rest) ==
  IF StartsWith(rest, ".") THEN AfterChain(Slice(rest, 2, Len(rest)), 0) ELSE None

RECURSIVE MethodCallMatches(_), MethodCallAt(_, _, _)
MethodCallMatches(content) ==
  IF ~Includes(content, "this.") THEN <<>>
  ELSE MethodCallAt(After(content, "this."), IdentPrefix(After(content, "this.")),
                    AfterCall(IdentSuffixRest(After(content, "this."))))

\* the word w read at the start of the text u that follows `this.`, after
\* being what follows the call made on it
MethodCallAt(u, w, after) ==
  IF (Includes(w, "service") \/ Includes(w, "Service")) /\ after # None
  THEN <<w>> \o MethodCallMatches(after)
  ELSE MethodCallMatches(u)

\* /([A-Za-z0-9_]+(?:Service|Controller))\.[\w.]+\(/g : it is not anchored, so
\* it also reads the property of a this.<property>.<method>( call
RECURSIVE StaticCallMatches(_), StaticCallAt(_, _, _)
StaticCallMatches(content) ==
  StaticCallAt(SkipNonIdent(content), IdentPrefix(SkipNonIdent(content)),
               IdentSuffixRest(SkipNonIdent(content)))

\* the word w that starts the text u, rest being what follows it
StaticCallAt(u, w, rest) ==
  IF u = "" THEN <<>>
  ELSE IF NameEnd(w) = Len(w) /\ AfterCall(rest) # None
    THEN <<w>> \o StaticCallMatches(AfterCall(rest))
  ELSE StaticCallMatches(rest)

analyzeMethodCalls(content) ==
  NormalizeAll(MethodCallMatches(content)) \o StaticCallMatches(content)

\* Array.prototype.sort() without a comparator orders names by code unit
CodeOrder ==
  " !\"#$%&'()*+,-./0123456789:;<=>?@" \o Upper \o "[\\]^_" \o Lower \o "{|}~"

\* the rank of the character c in that order, 0 for a character outside it
CodeUnit(c) ==
  IF \E i \in 1..Len(CodeOrder) : Slice(CodeOrder, i, i) = c
  THEN CHOOSE i \in 1..Len(CodeOrder) : Slice(CodeOrder, i, i) = c
  ELSE 0

RECURSIVE StrLess(_, _)
StrLess(a, b) ==
  IF a = "" THEN b # ""
  ELSE IF b = "" THEN FALSE
  ELSE IF Slice(a, 1, 1) = Slice(b, 1, 1) THEN StrLess(Slice(a, 2, Len(a)), Slice(b, 2, Len(b)))
  ELSE CodeUnit(Slice(a, 1, 1)) < CodeUnit(Slice(b, 1, 1))

\* Array.from(set).sort()
RECURSIVE SortNames(_)
SortNames(S) ==
  IF S = {} THEN <<>>
  ELSE LET m == CHOOSE x \in S : \A y \in S \ {x} : StrLess(x, y)
       IN  <<m>> \o SortNames(S \ {m})

Range(s) == {s[i] : i \in 1..Len(s)}

\* the assignment made for the service name, from what each detector added
DependencyOp(serviceName, imports, injections, instantiations, calls) ==
  IF serviceName = None THEN <<>>
  ELSE <<[key |-> serviceName,
          dependencies |-> SortNames(imports \cup injections \cup instantiations \cup calls),
          imports |-> imports, injections |-> injections,
          instantiations |-> instantiations, calls |-> calls,
          src |-> 0]>>

\* the assignment analyzeServiceFile makes for one file: the service name
\* (None when the file names no service) and the sorted dependency list,
\* with what each detector added
analyzeServiceFile(file) ==
  DependencyOp(extractServiceName(file.filename, file.content),
               Range(analyzeImports(file.content)),
               Range(analyzeConstructorInjections(file.content)),
               Range(analyzeDirectInstantiations(file.content)),
               Range(analyzeMethodCalls(file.content)))

\* `if (dependencies.size > 0) this.serviceDependencies[serviceName] = [...]`
ApplyDepOp(deps, op) ==
  IF op.dependencies = <<>> THEN deps ELSE ObjPut(deps, op.key, op.dependencies)
(***************************************************************************)
(* The size limit.  index.js reads it with parseInt, so it is an integer   *)
(* or NaN; every collector truncates with Array.prototype.slice(0, limit). *)
(***************************************************************************)
NaN == [isNaN |-> TRUE, value |-> 0]

Num(n) == [isNaN |-> FALSE, value |-> n]

\* the digits a text starts with, and their value
RECURSIVE DigitPrefix(_)
DigitPrefix(t) ==
  IF t # "" /\ Includes(Digits, Slice(t, 1, 1))
  THEN Slice(t, 1, 1) \o DigitPrefix(Slice(t, 2, Len(t)))
  ELSE ""

RECURSIVE DigitsValue(_)
DigitsValue(d) ==
  IF d = "" THEN 0
  ELSE 10 * DigitsValue(Slice(d, 1, Len(d) - 1)) + (IndexOf(Digits, Slice(d, Len(d), Len(d))) - 1)

\* parseInt(text): leading blanks, an optional sign, then the leading digits
\* the number read from the digits d, negated after a minus sign
SignedValue(neg, d) ==
  IF d = "" THEN NaN ELSE Num(IF neg THEN 0 - DigitsValue(d) ELSE DigitsValue(d))

\* the text t without the sign it starts with, if any
Unsigned(t) == IF StartsWith(t, "-") \/ StartsWith(t, "+") THEN Slice(t, 2, Len(t)) ELSE t

parseInt(text) ==
  SignedValue(StartsWith(SkipSpace(text), "-"), DigitPrefix(Unsigned(SkipSpace(text))))

\* `parseInt(args.limit || '100')`: arg is the text of the --limit argument as
\* minimist hands it over, None when the option is not given; a bare
\* `--limit` arrives as true, a numeric 0 and the empty text are falsy
Falsy(arg) == arg = None \/ arg = "" \/ (DigitPrefix(arg) = arg /\ DigitsValue(arg) = 0)

parseLimit(arg) == parseInt(IF Falsy(arg) THEN "100" ELSE arg)

\* Array.prototype.slice(0, end)
SliceTo(arr, end) ==
  LET n == Len(arr)
      k == IF end.isNaN THEN 0
           ELSE IF end.value < 0 THEN (IF n + end.value < 0 THEN 0 ELSE n + end.value)
           ELSE IF end.value > n THEN n
           ELSE end.value
  IN  SubSeq(arr, 1, k)

\* new Set() with add: the members in insertion order
SetAdd(set, x) == IF x \in Range(set) THEN set ELSE Append(set, x)

RECURSIVE SetAddAll(_, _)
SetAddAll(set, xs) == IF xs = <<>> THEN set ELSE SetAddAll(SetAdd(set, Head(xs)), Tail(xs))

\* the members in insertion order, cut to the limit
SortedSlice_unsorted(set, limit) == SliceTo(set, limit)

\* the sorted members cut to the limit from the wrong end
SortedSlice_tail(set, limit) ==
  LET sorted == SortNames(Range(set))
      kept == Len(SliceTo(sorted, limit))
  IN  SubSeq(sorted, Len(sorted) - kept + 1, Len(sorted))

\* [...set].sort().slice(0, limit)
SortedSlice(set, limit) == SliceTo(SortNames(Range(set)), limit)

(***************************************************************************)
(* Scanners shared by the name collectors.  A scanned file is              *)
(* [filename, content], the patterns are read on the text.                 *)
(***************************************************************************)
\* /kw\s+([A-Za-z0-9_]+)/g : the names, in text order
RECURSIVE DeclNames(_, _), DeclNamesAt(_, _)
DeclNames(content, kw) ==
  IF ~Includes(content, kw) THEN <<>> ELSE DeclNamesAt(After(content, kw), kw)

\* the match attempted on the text u that follows an occurrence of kw
DeclNamesAt(u, kw) ==
  LET s == SkipSpace(u)
      w == IdentPrefix(s)
  IN  IF s # u /\ w # ""
      THEN <<w>> \o DeclNames(Slice(s, Len(w) + 1, Len(s)), kw)
      ELSE DeclNames(u, kw)

\* the longest run of characters other than quotes that starts t
RECURSIVE UnquotedPrefix(_)
UnquotedPrefix(t) ==
  IF t # "" /\ ~IsQuote(Slice(t, 1, 1))
  THEN Slice(t, 1, 1) \o UnquotedPrefix(Slice(t, 2, Len(t)))
  ELSE ""

\* the keyword of kws that occurs first in content (kws has one that occurs)
FirstKw(content, kws) ==
  CHOOSE k \in kws :
    /\ Includes(content, k)
    /\ \A j \in kws : Includes(content, j) => IndexOf(content, k) <= IndexOf(content, j)

\* /(?:kw1|kw2|...)\s*\(\s*Q([^Q]+)Q/g, Q being a quote character
\* (the texts hold no backquote): the quoted first arguments, in text order
RECURSIVE CallArgs(_, _), CallArgsAt(_, _), CallArgsQuoted(_, _, _)
CallArgs(content, kws) ==
  IF \A k \in kws : ~Includes(content, k) THEN <<>>
  ELSE CallArgsAt(After(content, FirstKw(content, kws)), kws)

\* the match attempted on the text u that follows a keyword: `\s*\(\s*`
CallArgsAt(u, kws) ==
  IF StartsWith(SkipSpace(u), "(")
  THEN CallArgsQuoted(u, SkipSpace(Slice(SkipSpace(u), 2, Len(u))), kws)
  ELSE CallArgs(u, kws)

\* the quoted argument expected at the start of q
CallArgsQuoted(u, q, kws) ==
  LET a == UnquotedPrefix(Slice(q, 2, Len(q)))
  IN  IF q # "" /\ IsQuote(Slice(q, 1, 1)) /\ a # "" /\ Len(a) + 1 < Len(q)
      THEN <<a>> \o CallArgs(Slice(q, Len(a) + 3, Len(q)), kws)
      ELSE CallArgs(u, kws)

(***************************************************************************)
(* UtilityAnalyzer.                                                        *)
(***************************************************************************)
\* /(?:const|let|var)\s+([A-Za-z0-9_]+)\s*=\s*(?:async\s+)?\(/g
RECURSIVE ArrowNames(_), ArrowNamesAt(_), ArrowNamesValue(_, _, _)
ArrowNames(content) ==
  IF \A k \in {"const", "let", "var"} : ~Includes(content, k) THEN <<>>
  ELSE ArrowNamesAt(After(content, FirstKw(content, {"const", "let", "var"})))

\* the match attempted on the text u that follows a keyword:
\* `\s+([A-Za-z0-9_]+)\s*=\s*`
ArrowNamesAt(u) ==
  LET s1 == SkipSpace(u)
      w == IdentPrefix(s1)
      s2 == SkipSpace(Slice(s1, Len(w) + 1, Len(s1)))
  IN  IF s1 # u /\ w # "" /\ StartsWith(s2, "=")
      THEN ArrowNamesValue(u, w, SkipSpace(Slice(s2, 2, Len(s2))))
      ELSE ArrowNames(u)

\* the assigned value s3 of the name w: `(?:async\s+)?\(`
ArrowNamesValue(u, w, s3) ==
  LET a == Slice(s3, 6, Len(s3))
      s4 == IF StartsWith(s3, "async") /\ SkipSpace(a) # a THEN SkipSpace(a) ELSE s3
  IN  IF StartsWith(s4, "(")
      THEN <<w>> \o ArrowNames(Slice(s4, 2, Len(s4)))
      ELSE ArrowNames(u)

\* /exports\.(\w+)/g
RECURSIVE ExportNames(_), ExportNamesAt(_, _)
ExportNames(content) ==
  IF ~Includes(content, "exports.") THEN <<>>
  ELSE ExportNamesAt(After(content, "exports."), IdentPrefix(After(content, "exports.")))

\* the name w found at the start of the text u that follows `exports.`
ExportNamesAt(u, w) ==
  IF w # "" THEN <<w>> \o ExportNames(Slice(u, Len(w) + 1, Len(u))) ELSE ExportNames(u)

extractFunctions(content, limit) ==
  LET functions == Range(DeclNames(content, "function"))
                     \cup Range(ArrowNames(content))
                     \cup Range(ExportNames(content))
  IN  SliceTo(SortNames(functions), limit)

domains ==
  << [domain |-> "Date/Time", keywords |-> {"date", "time", "moment", "format", "parse"}],
     [domain |-> "Validation", keywords |-> {"validate", "check", "verify", "sanitize"}],
     [domain |-> "Crypto/Security", keywords |-> {"crypto", "hash", "encrypt", "decrypt", "jwt"}],
     [domain |-> "Logging", keywords |-> {"log", "logger", "error", "debug"}],
     [domain |-> "Database", keywords |-> {"db", "sql", "query", "model"}],
     [domain |-> "API/HTTP", keywords |-> {"api", "http", "request", "response", "fetch"}],
     [domain |-> "Math/Calculation", keywords |-> {"math", "calc", "sum", "average"}],
     [domain |-> "Cache", keywords |-> {"cache", "redis"}],
     [domain |-> "File/IO", keywords |-> {"file", "read", "write", "upload", "download"}],
     [domain |-> "Auth", keywords |-> {"auth", "token", "permission"}],
     [domain |-> "General", keywords |-> {}] >>

\* the first domain of the list with a keyword in either text
FirstDomain(lowerFile, lowerContent) ==
  LET hits == {i \in 1..Len(domains) :
                 \E k \in domains[i].keywords :
                   Includes(lowerFile, k) \/ Includes(lowerContent, k)}
  IN  IF hits = {} THEN "General"
      ELSE domains[CHOOSE i \in hits : \A j \in hits : i <= j].domain

categorizeDomain(filename, content) == FirstDomain(toLowerCase(filename), toLowerCase(content))

\* UtilityAnalyzer.processFile after the read: the one entry it pushes
analyzeUtilFile(file, limit) ==
  << [name |-> file.filename,
      domain |-> categorizeDomain(file.filename, file.content),
      functions |-> extractFunctions(file.content, limit),
      src |-> 0] >>

\* `utilsByDomain[domain].push(fileSummary)`, the list created when missing
PushByDomain(byDomain, op) ==
  LET list == IF ObjHas(byDomain, op.domain) THEN ObjGet(byDomain, op.domain) ELSE <<>>
  IN  ObjPut(byDomain, op.domain, Append(list, [file |-> op.name, functions |-> op.functions]))

\* `utilsFiles.push({ name, domain, functions })`
PushFile(list, op) ==
  Append(list, [name |-> op.name, domain |-> op.domain, functions |-> op.functions])

(***************************************************************************)
(* ApiRouteExtractor.                                                      *)
(***************************************************************************)
\* route.replace(/:[^\/]+/g, ':id')
RECURSIVE CollapseColon(_)
CollapseColon(route) ==
  IF ~Includes(route, ":") THEN route
  ELSE LET post == After(route, ":")
           seg == Before(post, "/")
       IN  IF seg = "" THEN Before(route, ":") \o ":" \o CollapseColon(post)
           ELSE Before(route, ":") \o ":id" \o CollapseColon(Slice(post, Len(seg) + 1, Len(post)))

\* route.replace(/\[.*?\]/g, ':id')
RECURSIVE CollapseBracket(_)
CollapseBracket(route) ==
  IF ~Includes(route, "[") THEN route
  ELSE LET post == After(route, "[")
       IN  IF Includes(Before(post, "\n"), "]")
           THEN Before(route, "[") \o ":id" \o CollapseBracket(After(post, "]"))
           ELSE Before(route, "[") \o "[" \o CollapseBracket(post)

\* route.replace(/\/+$/, '')
RECURSIVE StripSlashes(_)
StripSlashes(route) ==
  IF EndsWith(route, "/") THEN StripSlashes(Slice(route, 1, Len(route) - 1)) ELSE route

\* `route || '/'`
OrSlash(route) == IF route = "" THEN "/" ELSE route

normalizeRoute(route) ==
  OrSlash(StripSlashes(Before(CollapseBracket(CollapseColon(route)), "?")))

\* t reads as (:id\/?)*
RECURSIVE IdSegments(_)
IdSegments(t) ==
  \/ t = ""
  \/ /\ StartsWith(t, ":id")
     /\ \/ IdSegments(Slice(t, 4, Len(t)))
        \/ StartsWith(Slice(t, 4, Len(t)), "/") /\ IdSegments(Slice(t, 5, Len(t)))

\* every route passes
isValid_all(route) == TRUE

isValid(route) ==
  ~ \/ route # "" /\ StripSlashes(route) = ""
    \/ StartsWith(route, "/:id") /\ IdSegments(Slice(route, 2, Len(route)))
    \/ \E p \in {"/middleware", "/test", "/health"} : StartsWith(toLowerCase(route), p)

\* the keywords looked up in the route as it is written
isInternal_sensitive(route) ==
  \E p \in {"/admin", "/internal", "/debug", "/metrics", "/analytics", "/cron",
            "/webhook", "/logs"} :
    Includes(route, p)

isInternal(route) ==
  \E p \in {"/admin", "/internal", "/debug", "/metrics", "/analytics", "/cron",
            "/webhook", "/logs"} :
    Includes(toLowerCase(route), p)

routeMethods == {"get", "post", "put", "patch", "delete", "use"}

\* ApiRouteExtractor.processFile after the read: the additions it makes to
\* the two sets, in order
\* the addition made for a matched path raw, route being its normalized form
AddRoute(raw, route) ==
  IF StartsWith(raw, "/") /\ isValid(route)
  THEN << [target |-> IF isInternal(route) THEN "internalRoutes" ELSE "publicRoutes",
           name |-> route, src |-> 0] >>
  ELSE <<>>

AddRoutes(found) == Concat([i \in 1..Len(found) |-> AddRoute(found[i], normalizeRoute(found[i]))])

\* the three patterns, in the order the code runs them
routeRegexes ==
  << {"router." \o m : m \in routeMethods}, {"app." \o m : m \in routeMethods}, {".route"} >>

analyzeApiRoutes(file) ==
  AddRoutes(Concat([r \in 1..Len(routeRegexes) |-> CallArgs(file.content, routeRegexes[r])]))

(***************************************************************************)
(* ServiceClassifier.                                                      *)
(***************************************************************************)
businessHints == {"payment", "user", "order", "farm", "livestock", "lead", "chat", "assessment"}

utilityHints ==
  {"util", "helper", "common", "format", "validate", "parse", "convert", "crypto",
   "logger", "cache"}

\* the set chosen from the lower-case name, file name and content
ClassifyLower(nameLower, fileLower, contentLower) ==
  LET Hit(hints) == \E hint \in hints : Includes(nameLower, hint) \/ Includes(fileLower, hint)
  IN  IF Hit(utilityHints) THEN "utilityServices"
      ELSE IF Hit(businessHints) THEN "businessServices"
      ELSE IF \E w \in {"format", "validate", "parse"} : Includes(contentLower, w)
        THEN "utilityServices"
      ELSE "businessServices"

\* the set classifyName adds the name to
classifyName(name, filename, content) ==
  ClassifyLower(toLowerCase(name), toLowerCase(filename), toLowerCase(content))

capitalize(str) == toUpperChar(Slice(str, 1, 1)) \o Slice(str, 2, Len(str))

\* the capitalized clean name when it is long enough
InferredName(cleanName) == IF Len(cleanName) > 2 THEN capitalize(cleanName) ELSE None

inferNameFromFilename(filename) == InferredName(CleanName(filename))

\* the class names, or else the name inferred from the file name
NamesToClassify(classNames, inferred) ==
  IF classNames # <<>> THEN classNames
  ELSE IF inferred # None THEN <<inferred>>
  ELSE <<>>

ClassifyAll(names, file) ==
  [i \in 1..Len(names) |->
     [target |-> classifyName(names[i], file.filename, file.content),
      name |-> names[i], src |-> 0]]

\* ServiceClassifier.classifyFile after the read: the additions, in order
classifyFile(file) ==
  ClassifyAll(NamesToClassify(DeclNames(file.content, "class"),
                              inferNameFromFilename(file.filename)),
              file)

(***************************************************************************)
(* DbModelExtractor: the model names.                                      *)
(***************************************************************************)
\* /const\s+([A-Za-z0-9_]+Schema)\s*=/g : the constants' names, in text order
RECURSIVE SchemaConstants(_), SchemaConstantsAt(_)
SchemaConstants(content) ==
  IF ~Includes(content, "const") THEN <<>> ELSE SchemaConstantsAt(After(content, "const"))

\* the match attempted on the text u that follows `const`
SchemaConstantsAt(u) ==
  LET s == SkipSpace(u)
      w == IdentPrefix(s)
      rest == Slice(s, Len(w) + 1, Len(s))
  IN  IF /\ s # u /\ Len(w) > 6 /\ EndsWith(w, "Schema")
         /\ StartsWith(SkipSpace(rest), "=")
      THEN <<w>> \o SchemaConstants(rest)
      ELSE SchemaConstants(u)

\* /@Entity\s*\(\s*Q?([^Q\)]*?)Q?\s*\)[\s\S]*?class\s+([A-Za-z0-9_]+)/g, Q being
\* a quote character: the class names, in text order
\* t without the quote character it starts with, if any
Unquote(t) == IF t # "" /\ IsQuote(Slice(t, 1, 1)) THEN Slice(t, 2, Len(t)) ELSE t

\* the text between the parentheses reads as `\s*Q?([^Q\)]*?)Q?\s*`
IsEntityArg(open) ==
  SkipSpace(Unquote(Slice(open, Len(UnquotedPrefix(open)) + 1, Len(open)))) = ""

RECURSIVE EntityClasses(_), EntityClassesAt(_, _), EntityClassesIn(_, _, _)
EntityClasses(content) ==
  IF ~Includes(content, "@Entity") THEN <<>>
  ELSE EntityClassesAt(After(content, "@Entity"), SkipSpace(After(content, "@Entity")))

\* the match attempted on the text u that follows `@Entity`, s being u
\* without its leading blanks
EntityClassesAt(u, s) ==
  IF /\ StartsWith(s, "(") /\ Includes(s, ")")
     /\ IsEntityArg(Unquote(SkipSpace(Before(Slice(s, 2, Len(s)), ")"))))
  THEN EntityClassesIn(u, After(s, ")"), DeclNames(After(s, ")"), "class"))
  ELSE EntityClasses(u)

\* the first of the classes declared in the text after the parentheses
EntityClassesIn(u, after, classes) ==
  IF classes # <<>>
  THEN <<classes[1]>> \o EntityClasses(After(After(after, "class"), classes[1]))
  ELSE EntityClasses(u)

\* /model\s+([A-Za-z0-9_]+)\s*\{([^}]+)\}/g : the model names, in text order
RECURSIVE PrismaModels(_), PrismaModelsAt(_), PrismaModelsBody(_, _, _)
PrismaModels(content) ==
  IF ~Includes(content, "model") THEN <<>> ELSE PrismaModelsAt(After(content, "model"))

\* the match attempted on the text u that follows `model`
PrismaModelsAt(u) ==
  LET s == SkipSpace(u)
      w == IdentPrefix(s)
  IN  IF s # u /\ w # ""
      THEN PrismaModelsBody(u, w, SkipSpace(Slice(s, Len(w) + 1, Len(s))))
      ELSE PrismaModels(u)

\* the braces expected at the start of open, after the model name w
PrismaModelsBody(u, w, open) ==
  LET inner == Slice(open, 2, Len(open))
  IN  IF StartsWith(open, "{") /\ Includes(inner, "}") /\ Before(inner, "}") # ""
      THEN <<w>> \o PrismaModels(After(inner, "}"))
      ELSE PrismaModels(u)

\* the class names other than Model, Entity and Schema
ModelClasses(classes) ==
  Concat([i \in 1..Len(classes) |->
            IF classes[i] \in {"Model", "Entity", "Schema"} THEN <<>> ELSE <<classes[i]>>])

\* the capitalized names of the sequelize.define calls
SequelizeModels(defined) == [i \in 1..Len(defined) |-> capitalize(defined[i])]

\* the schema constants' names without their Schema suffix
SchemaModels(consts) == [i \in 1..Len(consts) |-> Slice(consts[i], 1, Len(consts[i]) - 6)]

(***************************************************************************)
(* DbModelExtractor: the field maps.  The type tables are plain objects,   *)
(* so a lookup also finds what Object.prototype hands down; a function     *)
(* found that way is written [inherited <name>].                           *)
(***************************************************************************)
ObjectPrototype ==
  {"constructor", "hasOwnProperty", "isPrototypeOf", "propertyIsEnumerable",
   "toLocaleString", "toString", "valueOf"}

Inherited(key) == "[inherited " \o key \o "]"

\* typeMap[type]: None stands for undefined
TypeMapGet(map, type) ==
  IF ObjHas(map, type) THEN ObjGet(map, type)
  ELSE IF type \in ObjectPrototype THEN Inherited(type)
  ELSE None

\* fields[fieldName] read as a condition
Truthy(fields, fieldName) == ObjHas(fields, fieldName) \/ fieldName \in ObjectPrototype

\* an object literal whose values are its keys
SameKeys(keys) == [i \in 1..Len(keys) |-> [k |-> keys[i], v |-> keys[i]]]

\* an object literal from [key, value] pairs
ObjOf(pairs) == [i \in 1..Len(pairs) |-> [k |-> pairs[i][1], v |-> pairs[i][2]]]

\* `mapped || type || 'Unknown'`
OrUnknown(mapped, type) ==
  IF mapped # None THEN mapped ELSE IF type # "" THEN type ELSE "Unknown"

mongooseTypeMap ==
  SameKeys(<<"String", "Number", "Boolean", "Date", "ObjectId", "Mixed", "Array", "Buffer">>)

normalizeMongooseType(type) == OrUnknown(TypeMapGet(mongooseTypeMap, type), type)

sequelizeTypeMap ==
  ObjOf(<< <<"DataTypes.STRING", "String">>, <<"DataTypes.INTEGER", "Number">>,
           <<"DataTypes.FLOAT", "Number">>, <<"DataTypes.DOUBLE", "Number">>,
           <<"DataTypes.BOOLEAN", "Boolean">>, <<"DataTypes.DATE", "Date">>,
           <<"DataTypes.TEXT", "Text">>, <<"DataTypes.JSON", "JSON">>,
           <<"DataTypes.JSONB", "JSONB">>, <<"DataTypes.ENUM", "Enum">>,
           <<"DataTypes.UUID", "UUID">> >>)

\* text.replace(pattern, ''), pattern being a plain text: its first occurrence removed
RemoveFirst(text, pattern) ==
  IF Includes(text, pattern) THEN Before(text, pattern) \o After(text, pattern) ELSE text

normalizeSequelizeType(type) ==
  OrUnknown(TypeMapGet(sequelizeTypeMap, type), RemoveFirst(type, "DataTypes."))

prismaTypeMap ==
  ObjOf(<< <<"String", "String">>, <<"Int", "Number">>, <<"Float", "Number">>,
           <<"Boolean", "Boolean">>, <<"DateTime", "Date">>, <<"Json", "JSON">>,
           <<"Bytes", "Buffer">> >>)

\* `typeMap[base] || base`
OrSelf(mapped, base) == IF mapped # None THEN mapped ELSE base

\* the mapped type of the token without its first mark, the suffix appended
PrismaMarked(base, suffix) == OrSelf(TypeMapGet(prismaTypeMap, base), base) \o suffix

normalizePrismaType(type) ==
  IF Includes(type, "?") THEN PrismaMarked(RemoveFirst(type, "?"), " (optional)")
  ELSE IF Includes(type, "[]") THEN PrismaMarked(RemoveFirst(type, "[]"), "[]")
  ELSE OrUnknown(TypeMapGet(prismaTypeMap, type), type)

typeScriptTypeMap ==
  ObjOf(<< <<"string", "String">>, <<"number", "Number">>, <<"boolean", "Boolean">>,
           <<"Date", "Date">> >>)

\* the blanks and line breaks that end t
RECURSIVE SpaceSuffix(_)
SpaceSuffix(t) ==
  IF EndsWith(t, " ") \/ EndsWith(t, "\n")
  THEN SpaceSuffix(Slice(t, 1, Len(t) - 1)) \o Slice(t, Len(t), Len(t))
  ELSE ""

\* String.prototype.trim
TrimSpace(t) == SkipSpace(Slice(t, 1, Len(t) - Len(SpaceSuffix(t))))

\* text.replace(/\s*\|\s*<word>/, ''): done is the text already passed over,
\* t the text still to search
RECURSIVE StripUnion(_, _, _)
StripUnion(done, t, word) ==
  IF ~Includes(t, "|") THEN done \o t
  ELSE IF StartsWith(SkipSpace(After(t, "|")), word)
    THEN Slice(done \o Before(t, "|"), 1,
               Len(done \o Before(t, "|")) - Len(SpaceSuffix(done \o Before(t, "|"))))
           \o Slice(SkipSpace(After(t, "|")), Len(word) + 1, Len(t))
  ELSE StripUnion(done \o Before(t, "|") \o "|", After(t, "|"), word)

\* `type.trim().replace(/\s*\|\s*null/, '').replace(/\s*\|\s*undefined/, '')`
CleanType(type) == StripUnion("", StripUnion("", TrimSpace(type), "null"), "undefined")

normalizeTypeScriptType(type) ==
  OrUnknown(TypeMapGet(typeScriptTypeMap, CleanType(type)), CleanType(type))

(***************************************************************************)
(* The per-field definitions of the document and relational dialects.      *)
(***************************************************************************)
\* the longest run of characters of chars that starts t
RECURSIVE CharPrefix(_, _)
CharPrefix(t, chars) ==
  IF t # "" /\ Includes(chars, Slice(t, 1, 1))
  THEN Slice(t, 1, 1) \o CharPrefix(Slice(t, 2, Len(t)), chars)
  ELSE ""

\* the longest run of characters outside chars that starts t
RECURSIVE CharPrefixNot(_, _)
CharPrefixNot(t, chars) ==
  IF t # "" /\ ~Includes(chars, Slice(t, 1, 1))
  THEN Slice(t, 1, 1) \o CharPrefixNot(Slice(t, 2, Len(t)), chars)
  ELSE ""

Letters == Lower \o Upper

\* /<key>\s*([<chars>]+)/ : the first group of the leftmost match, None
\* without a match
RECURSIVE KeyToken(_, _, _)
KeyToken(definition, key, chars) ==
  IF ~Includes(definition, key) THEN None
  ELSE IF CharPrefix(SkipSpace(After(definition, key)), chars) # ""
    THEN CharPrefix(SkipSpace(After(definition, key)), chars)
  ELSE KeyToken(After(definition, key), key, chars)

\* /<key>\s*(true|false)/ : the first group of the leftmost match
RECURSIVE KeyFlag(_, _)
KeyFlag(definition, key) ==
  IF ~Includes(definition, key) THEN None
  ELSE IF StartsWith(SkipSpace(After(definition, key)), "true") THEN "true"
  ELSE IF StartsWith(SkipSpace(After(definition, key)), "false") THEN "false"
  ELSE KeyFlag(After(definition, key), key)

\* ([^,}]+) read after `\s*` at the start of t: the blanks are given back one
\* at a time when nothing else can be taken
ValueText(t) ==
  IF CharPrefixNot(SkipSpace(t), ",}") # "" THEN CharPrefixNot(SkipSpace(t), ",}")
  ELSE IF SkipSpace(t) # t THEN Slice(t, Len(t) - Len(SkipSpace(t)), Len(t) - Len(SkipSpace(t)))
  ELSE ""

\* /<key>\s*([^,}]+)/ : the first group of the leftmost match, trimmed
RECURSIVE KeyValue(_, _)
KeyValue(definition, key) ==
  IF ~Includes(definition, key) THEN None
  ELSE IF ValueText(After(definition, key)) # "" THEN TrimSpace(ValueText(After(definition, key)))
  ELSE KeyValue(After(definition, key), key)

\* /enum:\s*\[([^\]]+)\]/ : the first group of the leftmost match
RECURSIVE EnumList(_)
EnumList(definition) ==
  IF ~Includes(definition, "enum:") THEN None
  ELSE IF /\ StartsWith(SkipSpace(After(definition, "enum:")), "[")
          /\ Includes(After(SkipSpace(After(definition, "enum:")), "["), "]")
          /\ Before(After(SkipSpace(After(definition, "enum:")), "["), "]") # ""
    THEN Before(After(SkipSpace(After(definition, "enum:")), "["), "]")
  ELSE EnumList(After(definition, "enum:"))

\* v.replace(/['"]/g, '')
RECURSIVE StripQuotes(_)
StripQuotes(v) ==
  IF v = "" THEN ""
  ELSE (IF IsQuote(Slice(v, 1, 1)) THEN "" ELSE Slice(v, 1, 1))
         \o StripQuotes(Slice(v, 2, Len(v)))

\* `split(',').map(v => v.trim().replace(/['"]/g, ''))` joined with ', '
EnumValues(parts) == JoinText([i \in 1..Len(parts) |-> StripQuotes(TrimSpace(parts[i]))], ", ")

\* the type a found token gives, 'Unknown' without a token
TokenType(token, dialect) ==
  IF token = None THEN "Unknown"
  ELSE IF dialect = "mongoose" THEN normalizeMongooseType(token)
  ELSE normalizeSequelizeType(token)

\* the enum list replaces the type when there is one
EnumOr(enum, type) == IF enum = None THEN type ELSE "Enum(" \o EnumValues(Split(enum, ",")) \o ")"

\* the modifiers pushed, in order
Modifiers(required, default) ==
  (IF required THEN <<"required">> ELSE <<>>)
    \o (IF default # None THEN <<"default: " \o default>> ELSE <<>>)

\* `modifiers.length > 0 ? type (modifiers) : type`
WithModifiers(type, modifiers) ==
  IF modifiers # <<>> THEN type \o " (" \o JoinText(modifiers, ", ") \o ")" ELSE type

parseMongooseFieldDefinition(definition) ==
  WithModifiers(EnumOr(EnumList(definition),
                       TokenType(KeyToken(definition, "type:", Letters \o "."), "mongoose")),
                Modifiers(KeyFlag(definition, "required:") = "true",
                          KeyValue(definition, "default:")))

parseSequelizeFieldDefinition(definition) ==
  WithModifiers(TokenType(KeyToken(definition, "type:", Letters \o ".()"), "sequelize"),
                Modifiers(KeyFlag(definition, "allowNull:") = "false",
                          KeyValue(definition, "defaultValue:")))

\* SchemaSnapshotExtractor.parseMongooseField: each modifier in parentheses
\* of its own
SuffixModifiers(type, modifiers) ==
  type \o JoinText([i \in 1..Len(modifiers) |-> " (" \o modifiers[i] \o ")"], "")

parseMongooseField(fieldDefinition) ==
  SuffixModifiers(EnumOr(EnumList(fieldDefinition),
                         TokenType(KeyToken(fieldDefinition, "type:", Letters \o "."),
                                   "mongoose")),
                  Modifiers(KeyFlag(fieldDefinition, "required:") = "true",
                            KeyValue(fieldDefinition, "default:")))

(***************************************************************************)
(* The field maps of the document dialect: a pass over the detailed        *)
(* per-field objects, then a pass over the simple one-line fields.         *)
(***************************************************************************)
\* /([a-zA-Z0-9_]+):\s*\{([^}]+)\}/g : the matches [name, def], in text order
RECURSIVE DetailedMatches(_), DetailedAt(_, _, _), DetailedBody(_, _, _)
DetailedMatches(t) ==
  DetailedAt(SkipNonIdent(t), IdentPrefix(SkipNonIdent(t)), IdentSuffixRest(SkipNonIdent(t)))

\* the word w that starts the text u, rest being what follows it
DetailedAt(u, w, rest) ==
  IF u = "" THEN <<>>
  ELSE IF StartsWith(rest, ":") THEN DetailedBody(w, rest, SkipSpace(Slice(rest, 2, Len(rest))))
  ELSE DetailedMatches(rest)

\* the braces expected at the start of open, after the name w and its colon
DetailedBody(w, rest, open) ==
  IF /\ StartsWith(open, "{") /\ Includes(open, "}")
     /\ Before(Slice(open, 2, Len(open)), "}") # ""
  THEN <<[name |-> w, def |-> Before(Slice(open, 2, Len(open)), "}")]>>
         \o DetailedMatches(After(open, "}"))
  ELSE DetailedMatches(rest)

\* /([a-zA-Z0-9_]+):\s*([A-Za-z.]+)(?=,|$)/g, or the same without its
\* lookahead: the matches [name, type], in text order
RECURSIVE SimpleMatches(_, _), SimpleAt(_, _, _, _), SimpleType(_, _, _, _, _)
SimpleMatches(t, lookahead) ==
  SimpleAt(SkipNonIdent(t), IdentPrefix(SkipNonIdent(t)), IdentSuffixRest(SkipNonIdent(t)),
           lookahead)

SimpleAt(u, w, rest, lookahead) ==
  IF u = "" THEN <<>>
  ELSE IF StartsWith(rest, ":")
    THEN SimpleType(w, rest, SkipSpace(Slice(rest, 2, Len(rest))),
                    CharPrefix(SkipSpace(Slice(rest, 2, Len(rest))), Letters \o "."), lookahead)
  ELSE SimpleMatches(rest, lookahead)

\* the type read at the start of value, after the name w and its colon
SimpleType(w, rest, value, type, lookahead) ==
  IF /\ type # ""
     /\ \/ ~lookahead
        \/ Len(type) = Len(value)
        \/ Slice(value, Len(type) + 1, Len(type) + 1) = ","
  THEN <<[name |-> w, type |-> type]>>
         \o SimpleMatches(Slice(value, Len(type) + 1, Len(value)), lookahead)
  ELSE SimpleMatches(rest, lookahead)

\* the first loop: `fields[fieldName] = <the parsed definition>` per match
RECURSIVE DetailedPass(_, _, _)
DetailedPass(fields, matches, parser) ==
  IF matches = <<>> THEN fields
  ELSE DetailedPass(ObjPut(fields, Head(matches).name,
                           CASE parser = "mongooseFields" ->
                                  parseMongooseFieldDefinition(Head(matches).def)
                             [] parser = "mongooseSchema" -> parseMongooseField(Head(matches).def)
                             [] parser = "sequelizeFields" ->
                                  parseSequelizeFieldDefinition(Head(matches).def)),
                    Tail(matches), parser)

\* the second loop without its guard
RECURSIVE SimplePass_overwrites(_, _)
SimplePass_overwrites(fields, matches) ==
  IF matches = <<>> THEN fields
  ELSE SimplePass_overwrites(ObjPut(fields, Head(matches).name,
                                    normalizeMongooseType(Head(matches).type)),
                             Tail(matches))

\* the second loop, guarded: `if (!fields[fieldName]) fields[fieldName] = ...`
RECURSIVE SimplePass(_, _)
SimplePass(fields, matches) ==
  IF matches = <<>> THEN fields
  ELSE SimplePass(IF Truthy(fields, Head(matches).name) THEN fields
                  ELSE ObjPut(fields, Head(matches).name,
                              normalizeMongooseType(Head(matches).type)),
                  Tail(matches))

\* DbModelExtractor.parseMongooseFields
parseMongooseFields(fieldsDefinition) ==
  SimplePass(DetailedPass(<<>>, DetailedMatches(fieldsDefinition), "mongooseFields"),
             SimpleMatches(fieldsDefinition, TRUE))

\* SchemaSnapshotExtractor.parseMongooseSchema
parseMongooseSchema(schemaDefinition) ==
  SimplePass(DetailedPass(<<>>, DetailedMatches(schemaDefinition), "mongooseSchema"),
             SimpleMatches(schemaDefinition, FALSE))

\* DbModelExtractor.parseSequelizeFields
parseSequelizeFields(fieldsDefinition) ==
  DetailedPass(<<>>, DetailedMatches(fieldsDefinition), "sequelizeFields")

(***************************************************************************)
(* The field maps of the class dialects: decorated columns, then plain     *)
(* property declarations.                                                  *)
(***************************************************************************)
\* ([\s\S]*?)\n\s*\} read at the start of done \o t: the group, None if no match
RECURSIVE LazyBody(_, _)
LazyBody(done, t) ==
  IF ~Includes(t, "\n") THEN None
  ELSE IF StartsWith(SkipSpace(After(t, "\n")), "}") THEN done \o Before(t, "\n")
  ELSE LazyBody(done \o Before(t, "\n") \o "\n", After(t, "\n"))

\* /class\s+<className>[^{]*\{([\s\S]*?)\n\s*\}/ : the group of the leftmost
\* match, None if no match
RECURSIVE ClassBody(_, _), ClassBodyAt(_, _, _), ClassBodyIn(_, _, _)
ClassBody(content, className) ==
  IF ~Includes(content, "class") THEN None
  ELSE ClassBodyAt(After(content, "class"), SkipSpace(After(content, "class")), className)

\* the match attempted on the text after that follows `class`, named being
\* after without its leading blanks
ClassBodyAt(after, named, className) ==
  IF after # named /\ StartsWith(named, className) /\ Includes(named, "{")
  THEN ClassBodyIn(after, LazyBody("", After(Slice(named, Len(className) + 1, Len(named)), "{")),
                   className)
  ELSE ClassBody(after, className)

ClassBodyIn(after, body, className) ==
  IF body # None THEN body ELSE ClassBody(after, className)

\* ([^<chars>]+) read after `\s*` at the start of t: the blanks are given
\* back one at a time when nothing else can be taken
CaptureNot(t, chars) ==
  IF CharPrefixNot(SkipSpace(t), chars) # "" THEN CharPrefixNot(SkipSpace(t), chars)
  ELSE IF SkipSpace(t) # t THEN Slice(t, Len(t) - Len(SkipSpace(t)), Len(t) - Len(SkipSpace(t)))
  ELSE ""

\* /@Column\s*\(([^)]*)\)\s*([a-zA-Z0-9_]+):\s*([^;]+)/g : the matches
\* [name, type, options], in text order
RECURSIVE ColumnMatches(_), ColumnAt(_, _), ColumnField(_, _, _, _), ColumnType(_, _, _, _, _)
ColumnMatches(classBody) ==
  IF ~Includes(classBody, "@Column") THEN <<>>
  ELSE ColumnAt(After(classBody, "@Column"), SkipSpace(After(classBody, "@Column")))

\* the match attempted on the text after that follows `@Column`
ColumnAt(after, open) ==
  IF StartsWith(open, "(") /\ Includes(open, ")")
  THEN ColumnField(after, Before(Slice(open, 2, Len(open)), ")"),
                   IdentPrefix(SkipSpace(After(open, ")"))),
                   IdentSuffixRest(SkipSpace(After(open, ")"))))
  ELSE ColumnMatches(after)

\* the field name w expected after the parentheses, rest being what follows it
ColumnField(after, options, w, rest) ==
  IF w # "" /\ StartsWith(rest, ":")
  THEN ColumnType(after, options, w, Slice(rest, 2, Len(rest)),
                  CaptureNot(Slice(rest, 2, Len(rest)), ";"))
  ELSE ColumnMatches(after)

\* the type read at the start of value
ColumnType(after, options, w, value, type) ==
  IF type # ""
  THEN <<[name |-> w, type |-> type, options |-> options]>>
         \o ColumnMatches(Slice(SkipSpace(value),
                                Len(CharPrefixNot(SkipSpace(value), ";")) + 1, Len(value)))
  ELSE ColumnMatches(after)

\* the name the optional access word leaves of the word w: the word is
\* matched from its first character on when no blank stands before it
StripAccess(w) ==
  IF StartsWith(w, "public") /\ Len(w) > 6 THEN Slice(w, 7, Len(w))
  ELSE IF StartsWith(w, "private") /\ Len(w) > 7 THEN Slice(w, 8, Len(w))
  ELSE IF StartsWith(w, "protected") /\ Len(w) > 9 THEN Slice(w, 10, Len(w))
  ELSE w

PropertyTypeChars == IdentChars \o "<>| \n"

\* the characters of t that SkipNonIdent passes over
Skipped(t) == Slice(t, 1, Len(t) - Len(SkipNonIdent(t)))

\* /([a-zA-Z0-9_]+):\s*([A-Za-z0-9_<>|\s]+);/g, generic adding the prefix
\* `(?:public|private|protected)?\s*` : the matches [name, type], in text order
RECURSIVE PropertyMatches(_, _), PropertyAt(_, _, _, _, _), PropertyType(_, _, _, _)
PropertyMatches(t, generic) ==
  PropertyAt(EndsWith(Skipped(t), " ") \/ EndsWith(Skipped(t), "\n"), SkipNonIdent(t),
             IdentPrefix(SkipNonIdent(t)), IdentSuffixRest(SkipNonIdent(t)), generic)

\* the word w that starts the text u, spaced telling that a blank stands
\* before it
PropertyAt(spaced, u, w, rest, generic) ==
  IF u = "" THEN <<>>
  ELSE IF StartsWith(rest, ":")
    THEN PropertyType(IF generic /\ ~spaced THEN StripAccess(w) ELSE w, rest,
                      CharPrefix(Slice(rest, 2, Len(rest)), PropertyTypeChars), generic)
  ELSE PropertyMatches(rest, generic)

\* the run of type characters after the colon, a semicolon expected after it
PropertyType(name, rest, run, generic) ==
  IF run # "" /\ Slice(rest, Len(run) + 2, Len(run) + 2) = ";"
  THEN <<[name |-> name, type |-> run]>>
         \o PropertyMatches(Slice(rest, Len(run) + 3, Len(rest)), generic)
  ELSE PropertyMatches(rest, generic)

\* `'nullable: false'` and `default:` looked up in the column options
parseTypeORMField(fieldType, columnOptions) ==
  WithModifiers(normalizeTypeScriptType(fieldType),
                Modifiers(Includes(columnOptions, "nullable: false"),
                          KeyValue(columnOptions, "default:")))

\* the first loop of parseTypeORMSchema
RECURSIVE ColumnPass(_, _)
ColumnPass(fields, matches) ==
  IF matches = <<>> THEN fields
  ELSE ColumnPass(ObjPut(fields, Head(matches).name,
                         parseTypeORMField(Head(matches).type, Head(matches).options)),
                  Tail(matches))

\* the second loop of parseTypeORMSchema, guarded:
\* `if (!fields[fieldName] && !fieldType.includes('()'))`
RECURSIVE PropertyPass(_, _)
PropertyPass(fields, matches) ==
  IF matches = <<>> THEN fields
  ELSE PropertyPass(IF Truthy(fields, Head(matches).name) \/ Includes(Head(matches).type, "()")
                    THEN fields
                    ELSE ObjPut(fields, Head(matches).name,
                                normalizeTypeScriptType(Head(matches).type)),
                    Tail(matches))

\* the loop of parseGenericClassFields: no guard, the later match wins
RECURSIVE GenericPass(_, _)
GenericPass(fields, matches) ==
  IF matches = <<>> THEN fields
  ELSE GenericPass(ObjPut(fields, Head(matches).name,
                          normalizeTypeScriptType(Head(matches).type)),
                   Tail(matches))

\* the fields read in a class body, `{}` when the class was not matched
TypeORMFields(classBody) ==
  IF classBody = None THEN <<>>
  ELSE PropertyPass(ColumnPass(<<>>, ColumnMatches(classBody)), PropertyMatches(classBody, FALSE))

GenericFields(classBody) ==
  IF classBody = None THEN <<>> ELSE GenericPass(<<>>, PropertyMatches(classBody, TRUE))

parseTypeORMSchema(content, className) == TypeORMFields(ClassBody(content, className))

parseGenericClassFields(content, className) == GenericFields(ClassBody(content, className))

(***************************************************************************)
(* The field maps of the schema-file dialect.                              *)
(***************************************************************************)
PrismaTypeChars == IdentChars \o "[]?"

\* /([a-zA-Z0-9_]+)\s+([A-Za-z0-9_\[\]?]+)(?:\s+([^@\n]+))?/g : the matches
\* [name, type, modifiers], in text order
RECURSIVE PrismaMatches(_), PrismaAt(_, _, _), PrismaField(_, _, _, _)
PrismaMatches(t) ==
  PrismaAt(SkipNonIdent(t), IdentPrefix(SkipNonIdent(t)), IdentSuffixRest(SkipNonIdent(t)))

\* the word w that starts the text u, rest being what follows it
PrismaAt(u, w, rest) ==
  IF u = "" THEN <<>>
  ELSE IF SkipSpace(rest) # rest /\ CharPrefix(SkipSpace(rest), PrismaTypeChars) # ""
    THEN PrismaField(w, CharPrefix(SkipSpace(rest), PrismaTypeChars),
                     Slice(SkipSpace(rest),
                           Len(CharPrefix(SkipSpace(rest), PrismaTypeChars)) + 1, Len(rest)),
                     SkipSpace(Slice(SkipSpace(rest),
                                     Len(CharPrefix(SkipSpace(rest), PrismaTypeChars)) + 1,
                                     Len(rest))))
  ELSE PrismaMatches(rest)

\* the optional group read after the type: after is the text that follows
\* the type, mods the same text without its leading blanks
PrismaField(w, type, after, mods) ==
  IF after # mods /\ CharPrefixNot(mods, "@\n") # ""
  THEN <<[name |-> w, type |-> type, modifiers |-> CharPrefixNot(mods, "@\n")]>>
         \o PrismaMatches(Slice(mods, Len(CharPrefixNot(mods, "@\n")) + 1, Len(mods)))
  ELSE <<[name |-> w, type |-> type, modifiers |-> ""]>> \o PrismaMatches(after)

\* /@default\(([^)]+)\)/ : the group of the leftmost match
RECURSIVE DefaultCall(_)
DefaultCall(modifiers) ==
  IF ~Includes(modifiers, "@default(") THEN None
  ELSE IF /\ Includes(After(modifiers, "@default("), ")")
          /\ Before(After(modifiers, "@default("), ")") # ""
    THEN Before(After(modifiers, "@default("), ")")
  ELSE DefaultCall(After(modifiers, "@default("))

\* the value one match gives its field
PrismaFieldType(type, modifiers) ==
  WithModifiers(normalizePrismaType(type),
                Modifiers(FALSE, IF Includes(modifiers, "@default") THEN DefaultCall(modifiers)
                                 ELSE None))

RECURSIVE PrismaPass(_, _)
PrismaPass(fields, matches) ==
  IF matches = <<>> THEN fields
  ELSE PrismaPass(ObjPut(fields, Head(matches).name,
                         PrismaFieldType(Head(matches).type, Head(matches).modifiers)),
                  Tail(matches))

parsePrismaFields(fieldsDefinition) == PrismaPass(<<>>, PrismaMatches(fieldsDefinition))

(***************************************************************************)
(* DbModelExtractor.processFile after the read: each detector adds the     *)
(* name to the model set and, when it has read a field map, assigns it to  *)
(* modelSchemas under that name.                                           *)
(***************************************************************************)
\* \{([^}]+)\} read at the start of open: the group, None if no match
Braced(open) ==
  IF /\ StartsWith(open, "{") /\ Includes(open, "}")
     /\ Before(Slice(open, 2, Len(open)), "}") # ""
  THEN Before(Slice(open, 2, Len(open)), "}")
  ELSE None

\* (?:mongoose\.)?Schema\s*\(\s*\{([^}]+)\} read at the start of s
SchemaCall(s) ==
  IF StartsWith(s, "Schema") /\ StartsWith(SkipSpace(Slice(s, 7, Len(s))), "(")
  THEN Braced(SkipSpace(Slice(SkipSpace(Slice(s, 7, Len(s))), 2, Len(s))))
  ELSE None

\* new\s+(?:mongoose\.)?Schema\s*\(\s*\{([^}]+)\} read at the start of s
NewSchema(s) ==
  IF StartsWith(s, "new") /\ SkipSpace(Slice(s, 4, Len(s))) # Slice(s, 4, Len(s))
  THEN SchemaCall(IF StartsWith(SkipSpace(Slice(s, 4, Len(s))), "mongoose.")
                  THEN Slice(SkipSpace(Slice(s, 4, Len(s))), 10, Len(s))
                  ELSE SkipSpace(Slice(s, 4, Len(s))))
  ELSE None

\* /new\s+(?:mongoose\.)?Schema\s*\(\s*\{([^}]+)\}/ : the group of the
\* leftmost match
RECURSIVE SchemaLiteral(_)
SchemaLiteral(content) ==
  IF ~Includes(content, "new") THEN None
  ELSE IF NewSchema("new" \o After(content, "new")) # None
    THEN NewSchema("new" \o After(content, "new"))
  ELSE SchemaLiteral(After(content, "new"))

\* <schemaName>\s*=\s*new... read at the start of named
ConstSchema(named, schemaName) ==
  IF /\ StartsWith(named, schemaName)
     /\ StartsWith(SkipSpace(Slice(named, Len(schemaName) + 1, Len(named))), "=")
  THEN NewSchema(SkipSpace(After(Slice(named, Len(schemaName) + 1, Len(named)), "=")))
  ELSE None

\* /const\s+<schemaName>\s*=\s*new\s+(?:mongoose\.)?Schema\s*\(\s*\{([^}]+)\}/ :
\* the group of the leftmost match
RECURSIVE SchemaConstant(_, _)
SchemaConstant(content, schemaName) ==
  IF ~Includes(content, "const") THEN None
  ELSE IF /\ SkipSpace(After(content, "const")) # After(content, "const")
          /\ ConstSchema(SkipSpace(After(content, "const")), schemaName) # None
    THEN ConstSchema(SkipSpace(After(content, "const")), schemaName)
  ELSE SchemaConstant(After(content, "const"), schemaName)

\* the end of content that is as long as lowRest
SameEnd(content, lowRest) == Slice(content, Len(content) - Len(lowRest) + 1, Len(content))

\* Q<modelName>Q,\s*\{ read at the start of q without regard to case, q being
\* in lower case: the text after the brace, None if no match
DefineArgs(q, modelName) ==
  IF /\ q # "" /\ IsQuote(Slice(q, 1, 1))
     /\ StartsWith(Slice(q, 2, Len(q)), toLowerCase(modelName))
     /\ Len(q) > Len(modelName) + 1
     /\ IsQuote(Slice(q, Len(modelName) + 2, Len(modelName) + 2))
     /\ StartsWith(Slice(q, Len(modelName) + 3, Len(q)), ",")
     /\ StartsWith(SkipSpace(Slice(q, Len(modelName) + 4, Len(q))), "{")
  THEN Slice(SkipSpace(Slice(q, Len(modelName) + 4, Len(q))), 2, Len(q))
  ELSE None

\* the [^}]+ group read in content where the lower-case text inner starts
DefineGroup(content, inner) ==
  IF inner # None /\ Includes(inner, "}") /\ Before(inner, "}") # ""
  THEN Before(SameEnd(content, inner), "}")
  ELSE None

\* /sequelize\.define\s*\(\s*Q<modelName>Q,\s*\{([^}]+)\}/i : the group of the
\* leftmost match; low is what is left of the content in lower case
RECURSIVE DefineLiteral(_, _, _)
DefineLiteral(content, low, modelName) ==
  IF ~Includes(low, "sequelize.define") THEN None
  ELSE IF /\ StartsWith(SkipSpace(After(low, "sequelize.define")), "(")
          /\ DefineGroup(content,
                         DefineArgs(SkipSpace(Slice(SkipSpace(After(low, "sequelize.define")),
                                                    2, Len(low))), modelName)) # None
    THEN DefineGroup(content,
                     DefineArgs(SkipSpace(Slice(SkipSpace(After(low, "sequelize.define")),
                                                2, Len(low))), modelName))
  ELSE DefineLiteral(content, After(low, "sequelize.define"), modelName)

\* /model\s+([A-Za-z0-9_]+)\s*\{([^}]+)\}/g : the [^}]+ groups, in text order
RECURSIVE PrismaBodies(_), PrismaBodiesAt(_, _, _)
PrismaBodies(content) ==
  IF ~Includes(content, "model") THEN <<>>
  ELSE PrismaBodiesAt(After(content, "model"), SkipSpace(After(content, "model")),
                      SkipSpace(IdentSuffixRest(SkipSpace(After(content, "model")))))

\* the match attempted on the text u that follows `model`: s is u without
\* its leading blanks, open what follows the name
PrismaBodiesAt(u, s, open) ==
  IF s # u /\ IdentPrefix(s) # "" /\ Braced(open) # None
  THEN <<Braced(open)>> \o PrismaBodies(After(open, "}"))
  ELSE PrismaBodies(u)

\* `this.models.add(name)`, then `this.modelSchemas[name] = schema` when
\* assign holds
ModelOp(name, assign, schema) ==
  [target |-> "models", name |-> name, src |-> 0, assign |-> assign, schema |-> schema]

\* extractClassSchema: the assignment is made whatever was read
extractClassSchema(content, className) ==
  IF Includes(content, "@Entity") \/ Includes(content, "@Column")
  THEN parseTypeORMSchema(content, className)
  ELSE parseGenericClassFields(content, className)

ClassOps(content, classes) ==
  [i \in 1..Len(classes) |-> ModelOp(classes[i], TRUE, extractClassSchema(content, classes[i]))]

\* extractMongooseSchema, extractSchemaConstant: the assignment is made when
\* the literal was matched
MongooseFieldsOp(name, literal) ==
  ModelOp(name, literal # None, IF literal = None THEN <<>> ELSE parseMongooseFields(literal))

MongooseOps(content, names) ==
  [i \in 1..Len(names) |-> MongooseFieldsOp(names[i], SchemaLiteral(content))]

\* extractSequelizeSchema
SequelizeFieldsOp(name, literal) ==
  ModelOp(name, literal # None, IF literal = None THEN <<>> ELSE parseSequelizeFields(literal))

SequelizeOps(content, names) ==
  [i \in 1..Len(names) |->
     SequelizeFieldsOp(names[i], DefineLiteral(content, toLowerCase(content), names[i]))]

SchemaConstantOps(content, consts) ==
  [i \in 1..Len(consts) |->
     MongooseFieldsOp(Slice(consts[i], 1, Len(consts[i]) - 6), SchemaConstant(content, consts[i]))]

\* extractTypeORMEntities
EntityOps(content, classes) ==
  [i \in 1..Len(classes) |-> ModelOp(classes[i], TRUE, parseTypeORMSchema(content, classes[i]))]

\* extractPrismaModels
PrismaOps(names, bodies) ==
  [i \in 1..Len(names) |-> ModelOp(names[i], TRUE, parsePrismaFields(bodies[i]))]

\* the six detectors on one content, in the order they run
ModelOps(content) ==
  ClassOps(content, ModelClasses(DeclNames(content, "class")))
    \o MongooseOps(content, CallArgs(content, {"mongoose.model"}))
    \o SequelizeOps(content, SequelizeModels(CallArgs(content, {"sequelize.define"})))
    \o SchemaConstantOps(content, SchemaConstants(content))
    \o EntityOps(content, EntityClasses(content))
    \o PrismaOps(PrismaModels(content), PrismaBodies(content))

analyzeModelFile(file) == ModelOps(file.content)

(***************************************************************************)
(* The files the route collectors are run on.                              *)
(***************************************************************************)
MaxStmts == 3

NFiles == 2

RouteDecls ==
  { RouteDecl("get", "/a", <<>>, TRUE),
    RouteDecl("get", "/a", <<"isAdmin">>, TRUE),
    RouteDecl("get", "/a", <<"authenticate">>, TRUE),
    RouteDecl("get", "/a", <<"requireAuth()">>, TRUE),
    RouteDecl("get", "/a", <<"isAdmin", "jwtAuth()">>, TRUE),
    RouteDecl("get", "/a", <<"passport.authenticate('local')">>, TRUE),
    RouteDecl("get", "/a", <<"jwtAuth()", "requireRole('admin')">>, FALSE),
    RouteDecl("get", "/admin/x", <<>>, TRUE) }

UseCalls ==
  { UseCall("global", "", "authenticate", TRUE),
    UseCall("global", "", "requireAuth()", FALSE),
    UseCall("global", "", "logger", TRUE),
    UseCall("global", "", "expressJwt({ secret: s })", TRUE),
    UseCall("path", "/admin", "adminAuth", TRUE),
    UseCall("path", "/admin", "logger", TRUE),
    UseCall("dynamic", "prefixVar", "adminAuth", TRUE) }

AuthStatements == RouteDecls \cup UseCalls

TextsOf(stmts, n) == {c \in UNION {[1..k -> stmts] : k \in 1..n} : c[1].nl}

\* a route file: its name and its statements
RouteFile(statements) == [filename |-> "routes.js", statements |-> statements]

AuthFileTexts == TextsOf(AuthStatements, MaxStmts)

\* route declarations, Joi schemas and DTO interfaces the payload collector reads
PayloadRoutes ==
  { RouteDecl("post", "/users", <<>>, TRUE),
    RouteDecl("post", "/users", <<"validate(userSchema)">>, TRUE),
    RouteDecl("post", "/users", <<"validate(userSchema)", "validate(itemSchema)">>, TRUE),
    RouteDecl("post", "/users", <<"celebrate({ body: userSchema })">>, TRUE),
    RouteDecl("post", "/users", <<"celebrate({ body: Joi.object({ id: Joi.string() }) })">>, TRUE),
    RouteDecl("post", "/users",
              <<"async req => { const { id, name } = req.body; res.json({ ok: true }); }">>, TRUE),
    RouteDecl("post", "/users", <<"validate(userSchema)">>, FALSE),
    RouteDecl("post", "/items", <<"validate(itemSchema)">>, TRUE) }

PayloadDecls ==
  { JoiDecl("userSchema", " id: Joi.string(), name: Joi.string() "),
    JoiDecl("itemSchema", " id: Joi.number() "),
    DtoDecl("CreateUserRequest", " name: string; email?: string "),
    DtoDecl("UserResponse", " id: number ") }

PayloadStatements == PayloadRoutes \cup PayloadDecls

PayloadFileTexts == TextsOf(PayloadStatements, MaxStmts)

\* the route files of a run over NFiles files, each of at most two statements
MergeAuthStatements ==
  { RouteDecl("get", "/a", <<>>, TRUE),
    RouteDecl("get", "/a", <<"isAdmin">>, TRUE),
    UseCall("global", "", "authenticate", TRUE) }

MergePayloadStatements ==
  { RouteDecl("post", "/users", <<"validate(userSchema)">>, TRUE),
    RouteDecl("post", "/users",
              <<"async req => { const { id, name } = req.body; res.json({ ok: true }); }">>, TRUE),
    JoiDecl("userSchema", " id: Joi.string(), name: Joi.string() ") }

MergeAuthFiles == [1..NFiles -> {RouteFile(c) : c \in TextsOf(MergeAuthStatements, 2)}]

MergePayloadFiles == [1..NFiles -> {RouteFile(c) : c \in TextsOf(MergePayloadStatements, 2)}]

\* the service files: a base name and one or two lines of text
ServiceLines ==
  { "export class OrderService {",
    "import { PaymentService } from './PaymentService.js';",
    "const audit = require('../services/auditService');",
    "constructor(auditService) { this.auditService = auditService; }",
    "this.auditService.log(order);",
    "const p = new PaymentService();",
    "PaymentService.charge(order);" }

ServiceFilenames == {"orderService", "utils"}

ContentsOf(lines, n) ==
  {JoinText(c, "\n") : c \in UNION {[1..k -> lines] : k \in 1..n}}

ServiceFiles ==
  {[filename |-> fn, content |-> c] :
     fn \in ServiceFilenames, c \in ContentsOf(ServiceLines, 2)}

\* the service files of a run over NFiles files, one line each
MergeServiceLines ==
  { "export class OrderService {",
    "this.auditService.log(order);",
    "const p = new PaymentService();",
    "export class OrderService { pay() { return new PaymentService(); } }",
    "export class OrderService { log() { return new AuditService(); } }" }

MergeServiceFiles ==
  [1..NFiles -> {[filename |-> fn, content |-> c] :
                   fn \in ServiceFilenames, c \in MergeServiceLines}]

(***************************************************************************)
(* The files the name collectors are run on, and the --limit arguments.    *)
(***************************************************************************)
MaxLimit == 2

\* the decimal text of a limit up to 9
LimitText(n) == Slice(Digits, n + 1, n + 1)

\* --limit given as a positive integer
LimitArgs == {LimitText(n) : n \in 1..MaxLimit}

\* --limit absent, valid, or malformed: non-numeric, a bare flag, negative
AnyLimitArgs == {None} \cup LimitArgs \cup {"abc", "true", "-1"}

UtilFiles ==
  { [filename |-> "dateUtils.js",
     content |-> "function parseDate(d) {}\nexports.now = now;"],
    [filename |-> "timeHelper.js",
     content |-> "const elapsed = (a, b) => b - a;"],
    [filename |-> "calc.js",
     content |-> "const sum = (a, b) => a + b;\nlet run = async(x) => x;"] }

RouteFiles ==
  { [filename |-> "userRoutes.js",
     content |-> "router.get('/users/:userId', h);\nrouter.post('/admin/jobs', h);"],
    [filename |-> "orderRoutes.js",
     content |-> "app.use('/health', h);\napp.get(\"/orders/:id/cancel?x=1\", h);"],
    [filename |-> "zooRoutes.js",
     content |-> "router.route('/users/[id]/').get(h);\nrouter.delete('/Zoo', h);\nrouter.get('users', h);"] }

ClassifierFiles ==
  { [filename |-> "orderService.js", content |-> "export class OrderService {}"],
    [filename |-> "orderUtils.js", content |-> "class OrderService {}\nclass Apple {}"],
    [filename |-> "Zebra.js", content |-> "class Zebra { parse() {} }\nclass Mango {}"] }

ModelFiles ==
  { [filename |-> "User",
     content |-> "class User extends Model {}\nmodel Apple {\n id Int\n}"],
    [filename |-> "zebra",
     content |-> "const Zebra = mongoose.model('Zebra', s);\nsequelize.define('apple', {});"],
    [filename |-> "Mango", content |-> "@Entity('mangos')\nexport class Mango {}"] }

\* the file lists of a run of one name collector over NFiles different files
CollectFiles(name) ==
  LET menu == CASE name = "routes" -> RouteFiles
                [] name = "services" -> ClassifierFiles
                [] name = "models" -> ModelFiles
                [] name = "utils" -> UtilFiles
  IN  {t \in [1..NFiles -> menu] : \A i, j \in 1..NFiles : i # j => t[i] # t[j]}

(***************************************************************************)
(* The project a whole run of analyze() is made on: for each collector the *)
(* files its patterns find.                                                *)
(***************************************************************************)
Project ==
  [services |-> << [filename |-> "orderUtils.js",
                    content |-> "class OrderService {}\nclass Apple {}"] >>,
   routes |-> << [filename |-> "userRoutes.js",
                  content |-> "router.get('/users/:userId', h);\nrouter.delete('/Zoo', h);"] >>,
   models |-> << [filename |-> "zebra",
                  content |-> "const Zebra = mongoose.model('Zebra', s);\nsequelize.define('apple', {});"],
                 [filename |-> "Mango", content |-> "@Entity('mangos')\nexport class Mango {}"] >>,
   utils |-> << [filename |-> "dateUtils.js",
                 content |-> "function parseDate(d) {}\nexports.now = now;"] >>,
   deps |-> << [filename |-> "orderService",
                content |-> "export class OrderService { pay() { return new PaymentService(); } }\nthis.auditService.log(order);"] >>,
   payload |-> << RouteFile(<< RouteDecl("post", "/users", <<"validate(userSchema)">>, TRUE),
                     JoiDecl("userSchema", " id: Joi.string(), name: Joi.string() ") >>) >>,
   auth |-> << RouteFile(<< RouteDecl("get", "/a", <<"isAdmin">>, TRUE),
                  RouteDecl("get", "/admin/x", <<"authenticate">>, TRUE) >>) >>]

\* the collectors analyze() runs, in its order
AnalyzeOrder == <<"services", "routes", "models", "utils", "deps", "payload", "auth">>


\* raw names are made of up to MaxName of these parts
MaxName == 2

NameParts ==
  {"a", "s", "order", "Service", "service", "Controller", "controller", "Helper", "Svc", "_", "X1"}

RECURSIVE NamesOf(_)
NamesOf(n) ==
  IF n = 0 THEN {""}
  ELSE LET shorter == NamesOf(n - 1)
       IN  shorter \cup {a \o p : a \in shorter, p \in NameParts}

RawNames == NamesOf(MaxName)

Roles == {"service", "controller", "model"}

\* a name is normalised up to MaxApply times in a row
MaxApply == 2

(***************************************************************************)
(* State.  One collector's extract() runs at a time (Summarizer.analyze    *)
(* awaits each): it starts a scan per file, each scan waits for its own    *)
(* read and then analyses the text in one synchronous run, writing to the  *)
(* collector's map; extract() returns the map once every scan has settled. *)
(***************************************************************************)
VARIABLES
  collector,      \* the extractor whose extract() is running
  files,          \* files[f]: the name and the text of file f
  status,         \* status[f]: "pending", "scanning", "done" or "failed"
  cur,            \* the file under analysis, 0 between analyses
  queue,          \* visits of the running analysis still to make
  visited,        \* visits the running (or last) analysis has made
  seen,           \* every visit made since extract() started, oldest first
  returned,       \* extract() has returned
  authPolicies,   \* AuthPolicyExtractor.authPolicies
  payloads,       \* PayloadExtractor.payloads
  serviceDependencies,  \* ServiceInteractionExtractor.serviceDependencies
  publicRoutes,   \* ApiRouteExtractor.publicRoutes
  internalRoutes, \* ApiRouteExtractor.internalRoutes
  businessServices,  \* ServiceClassifier.businessServices
  utilityServices,   \* ServiceClassifier.utilityServices
  models,         \* DbModelExtractor.models
  modelSchemas,   \* DbModelExtractor.modelSchemas: model name -> field map
  utilsByDomain,  \* UtilityAnalyzer.utilsByDomain
  utilsFiles,     \* UtilityAnalyzer.utilsFiles
  args,           \* the command-line options of the run (index.js)
  limit,          \* Summarizer.limit, handed to every collector
  project,        \* project[c]: the files collector c finds
  todo,           \* the collectors analyze() has still to run, in order
  summary,        \* Summarizer.summary
  limited,        \* applyLimits() has run: analyze() returns the summary
  raw,            \* a raw name handed to a name normalisation, None outside one
  role,           \* the kind of entity the name stands for
  canonical,      \* the results of the successive normalisations of raw
  fields,         \* the field map a schema parser is filling
  pass            \* the loop of the parser that ran last, None before the first

nameSets == <<publicRoutes, internalRoutes, businessServices, utilityServices, models>>

utilLists == <<utilsByDomain, utilsFiles>>

pipeline == <<args, limit, project, todo, limited>>

naming == <<raw, role, canonical>>

parsing == <<fields, pass>>

vars == <<collector, files, status, cur, queue, visited, seen, returned, authPolicies, payloads, serviceDependencies, nameSets, utilLists, pipeline, summary, modelSchemas, naming, parsing>>

Settled(f) == status[f] \in {"done", "failed"}

\* fs.readFile resolves for file f and the analysis of its text begins
StartScan(f) ==
  /\ ~returned /\ cur = 0 /\ status[f] = "pending"
  /\ cur' = f
  /\ status' = [status EXCEPT ![f] = "scanning"]
  /\ queue' = (CASE collector = "auth" -> analyzeRouteFile(files[f].statements)
                 [] collector = "payload" -> analyzeRouteFilePayloads(files[f].statements)
                 [] collector = "deps" -> analyzeServiceFile(files[f])
                 [] collector = "routes" -> analyzeApiRoutes(files[f])
                 [] collector = "services" -> classifyFile(files[f])
                 [] collector = "models" -> analyzeModelFile(files[f])
                 [] collector = "utils" -> analyzeUtilFile(files[f], limit))
  /\ visited' = <<>>
  /\ UNCHANGED <<collector, files, seen, returned, authPolicies, payloads, serviceDependencies, nameSets, utilLists, pipeline, summary, modelSchemas, naming, parsing>>

\* fs.readFile rejects for file f and nothing catches it: the rejection ends
\* extract() at once, the other scans' results are dropped
ReadError_rejects(f) ==
  /\ ~returned /\ cur = 0 /\ status[f] = "pending"
  /\ status' = [status EXCEPT ![f] = "failed"]
  /\ returned' = TRUE
  /\ UNCHANGED <<collector, files, cur, queue, visited, seen, authPolicies, payloads, serviceDependencies, nameSets, utilLists, pipeline, summary, modelSchemas, naming, parsing>>

\* fs.readFile rejects for file f: the catch logs a warning, nothing is written
ReadError(f) ==
  /\ ~returned /\ cur = 0 /\ status[f] = "pending"
  /\ status' = [status EXCEPT ![f] = "failed"]
  /\ UNCHANGED <<collector, files, cur, queue, visited, seen, returned, authPolicies, payloads, serviceDependencies, nameSets, utilLists, pipeline, summary, modelSchemas, naming, parsing>>

\* the next visit of the running AuthPolicyExtractor analysis
AuthVisit ==
  /\ collector = "auth" /\ cur # 0 /\ queue # <<>>
  /\ LET op == Head(queue)
         rec == [op EXCEPT !.src = <<cur, op.src>>] @@
                  [wrote |-> AuthWrites(authPolicies, op),
                   prev |-> ObjGet(authPolicies, op.key)]
     IN  /\ authPolicies' = ApplyAuthOp(authPolicies, op)
         /\ visited' = Append(visited, rec)
         /\ seen' = Append(seen, rec)
  /\ queue' = Tail(queue)
  /\ UNCHANGED <<collector, files, status, cur, returned, payloads, serviceDependencies, nameSets, utilLists, pipeline, summary, modelSchemas, naming, parsing>>

\* the next visit of the running PayloadExtractor analysis
PayloadVisit ==
  /\ collector = "payload" /\ cur # 0 /\ queue # <<>>
  /\ LET op == Head(queue)
         rec == [op EXCEPT !.src = <<cur, op.src>>] @@
                  [prev |-> IF ObjHas(payloads, op.key) THEN ObjGet(payloads, op.key)
                            ELSE EmptyPayload]
     IN  /\ payloads' = ApplyPayOp(payloads, op)
         /\ visited' = Append(visited, rec)
         /\ seen' = Append(seen, rec)
  /\ queue' = Tail(queue)
  /\ UNCHANGED <<collector, files, status, cur, returned, authPolicies, serviceDependencies, nameSets, utilLists, pipeline, summary, modelSchemas, naming, parsing>>

\* the assignment the running ServiceInteractionExtractor analysis ends with
DepsVisit ==
  /\ collector = "deps" /\ cur # 0 /\ queue # <<>>
  /\ LET op == Head(queue)
         rec == [op EXCEPT !.src = <<cur, 0>>]
     IN  /\ serviceDependencies' = ApplyDepOp(serviceDependencies, op)
         /\ visited' = Append(visited, rec)
         /\ seen' = Append(seen, rec)
  /\ queue' = Tail(queue)
  /\ UNCHANGED <<collector, files, status, cur, returned, authPolicies, payloads, nameSets, utilLists, pipeline, summary, modelSchemas, naming, parsing>>

\* the analysis of the current file has run to its end
EndScan ==
  /\ cur # 0 /\ queue = <<>>
  /\ status' = [status EXCEPT ![cur] = "done"]
  /\ cur' = 0
  /\ UNCHANGED <<collector, files, queue, visited, seen, returned, authPolicies, payloads, serviceDependencies, nameSets, utilLists, pipeline, summary, modelSchemas, naming, parsing>>

\* the next addition of the running ApiRouteExtractor analysis
RouteVisit ==
  /\ collector = "routes" /\ cur # 0 /\ queue # <<>>
  /\ LET op == Head(queue)
         rec == [op EXCEPT !.src = <<cur, 0>>]
     IN  /\ IF op.target = "internalRoutes"
            THEN /\ internalRoutes' = SetAdd(internalRoutes, op.name)
                 /\ UNCHANGED publicRoutes
            ELSE /\ publicRoutes' = SetAdd(publicRoutes, op.name)
                 /\ UNCHANGED internalRoutes
         /\ visited' = Append(visited, rec)
         /\ seen' = Append(seen, rec)
  /\ queue' = Tail(queue)
  /\ UNCHANGED <<collector, files, status, cur, returned, authPolicies, payloads, serviceDependencies, businessServices, utilityServices, models, utilLists, pipeline, summary, modelSchemas, naming, parsing>>

\* the next addition of the running ServiceClassifier analysis
ServiceVisit ==
  /\ collector = "services" /\ cur # 0 /\ queue # <<>>
  /\ LET op == Head(queue)
         rec == [op EXCEPT !.src = <<cur, 0>>]
     IN  /\ IF op.target = "utilityServices"
            THEN /\ utilityServices' = SetAdd(utilityServices, op.name)
                 /\ UNCHANGED businessServices
            ELSE /\ businessServices' = SetAdd(businessServices, op.name)
                 /\ UNCHANGED utilityServices
         /\ visited' = Append(visited, rec)
         /\ seen' = Append(seen, rec)
  /\ queue' = Tail(queue)
  /\ UNCHANGED <<collector, files, status, cur, returned, authPolicies, payloads, serviceDependencies, publicRoutes, internalRoutes, models, utilLists, pipeline, summary, modelSchemas, naming, parsing>>

\* the next addition of the running DbModelExtractor analysis
ModelVisit ==
  /\ collector = "models" /\ cur # 0 /\ queue # <<>>
  /\ LET op == Head(queue)
         rec == [op EXCEPT !.src = <<cur, 0>>]
     IN  /\ models' = SetAdd(models, op.name)
         /\ modelSchemas' = IF op.assign THEN ObjPut(modelSchemas, op.name, op.schema)
                            ELSE modelSchemas
         /\ visited' = Append(visited, rec)
         /\ seen' = Append(seen, rec)
  /\ queue' = Tail(queue)
  /\ UNCHANGED <<collector, files, status, cur, returned, authPolicies, payloads, serviceDependencies, publicRoutes, internalRoutes, businessServices, utilityServices, utilLists, pipeline, summary, naming, parsing>>

\* the two pushes the running UtilityAnalyzer analysis ends with
UtilVisit ==
  /\ collector = "utils" /\ cur # 0 /\ queue # <<>>
  /\ LET op == Head(queue)
         rec == [op EXCEPT !.src = <<cur, 0>>]
     IN  /\ utilsByDomain' = PushByDomain(utilsByDomain, op)
         /\ utilsFiles' = PushFile(utilsFiles, op)
         /\ visited' = Append(visited, rec)
         /\ seen' = Append(seen, rec)
  /\ queue' = Tail(queue)
  /\ UNCHANGED <<collector, files, status, cur, returned, authPolicies, payloads, serviceDependencies, nameSets, pipeline, summary, modelSchemas, naming, parsing>>

\* what analyze() stores in the summary when the running collector returns
StoreResult(s) ==
  CASE collector = "services" ->
         [s EXCEPT !.businessServices = SortedSlice(businessServices, limit),
                   !.utilityServices = SortedSlice(utilityServices, limit)]
    [] collector = "routes" ->
         [s EXCEPT !.publicRoutes = SortedSlice(publicRoutes, limit),
                   !.internalRoutes = SortedSlice(internalRoutes, limit)]
    [] collector = "models" -> [s EXCEPT !.dbModels = SortedSlice(models, limit)]
    [] collector = "utils" ->
         [s EXCEPT !.utils = [byDomain |-> utilsByDomain, files |-> utilsFiles]]
    [] collector = "deps" -> [s EXCEPT !.serviceDependencies = serviceDependencies]
    [] collector = "payload" -> [s EXCEPT !.apiPayloads = payloads]
    [] collector = "auth" -> [s EXCEPT !.authPolicies = authPolicies]

\* extract() returns without awaiting the scans it started
Return_early ==
  /\ ~returned /\ cur = 0
  /\ returned' = TRUE
  /\ summary' = StoreResult(summary)
  /\ UNCHANGED <<collector, files, status, cur, queue, visited, seen, authPolicies, payloads, serviceDependencies, nameSets, utilLists, pipeline, modelSchemas, naming, parsing>>

\* the join waits for every scan to have read its file
Return_fulfilled ==
  /\ ~returned /\ \A f \in 1..Len(files) : status[f] = "done"
  /\ returned' = TRUE
  /\ summary' = StoreResult(summary)
  /\ UNCHANGED <<collector, files, status, cur, queue, visited, seen, authPolicies, payloads, serviceDependencies, nameSets, utilLists, pipeline, modelSchemas, naming, parsing>>

\* Promise.all settles, extract() returns the collector's result and
\* analyze() stores it in the summary
Return ==
  /\ ~returned /\ \A f \in 1..Len(files) : Settled(f)
  /\ returned' = TRUE
  /\ summary' = StoreResult(summary)
  /\ UNCHANGED <<collector, files, status, cur, queue, visited, seen, authPolicies, payloads, serviceDependencies, nameSets, utilLists, pipeline, modelSchemas, naming, parsing>>

\* analyze() constructs the next collector and calls its extract(), which
\* starts a scan for each of its files
NextCollector ==
  /\ returned /\ todo # <<>>
  /\ collector' = Head(todo)
  /\ todo' = Tail(todo)
  /\ files' = project[Head(todo)]
  /\ status' = [f \in 1..Len(project[Head(todo)]) |-> "pending"]
  /\ cur' = 0 /\ queue' = <<>> /\ visited' = <<>> /\ seen' = <<>>
  /\ returned' = FALSE
  /\ UNCHANGED <<authPolicies, payloads, serviceDependencies, nameSets, utilLists, args, limit, project, limited, summary, modelSchemas, naming, parsing>>

\* Summarizer.applyLimits
applyLimits(s) ==
  [s EXCEPT !.businessServices = SliceTo(s.businessServices, limit),
            !.utilityServices = SliceTo(s.utilityServices, limit),
            !.publicRoutes = SliceTo(s.publicRoutes, limit),
            !.internalRoutes = SliceTo(s.internalRoutes, limit),
            !.dbModels = SliceTo(s.dbModels, limit)]

\* the last collector has returned: analyze() applies the limits and returns
ApplyLimits ==
  /\ returned /\ todo = <<>> /\ ~limited
  /\ summary' = applyLimits(summary)
  /\ limited' = TRUE
  /\ UNCHANGED <<collector, files, status, cur, queue, visited, seen, returned, authPolicies, payloads, serviceDependencies, nameSets, utilLists, args, limit, project, todo, modelSchemas, naming, parsing>>

\* Summarizer.summary as the constructor leaves it
EmptySummary ==
  [businessServices |-> <<>>, utilityServices |-> <<>>,
   publicRoutes |-> <<>>, internalRoutes |-> <<>>,
   dbModels |-> <<>>,
   utils |-> [byDomain |-> <<>>, files |-> <<>>],
   serviceDependencies |-> <<>>, apiPayloads |-> <<>>, authPolicies |-> <<>>]

\* the collectors before a run of analyze() over the collectors of order,
\* each with its files of the project proj, under the --limit argument arg
InitCollectors(order, proj, arg) ==
  /\ args = [limit |-> arg]
  /\ limit = parseLimit(arg)
  /\ project = proj
  /\ collector = Head(order)
  /\ todo = Tail(order)
  /\ files = proj[Head(order)]
  /\ status = [f \in 1..Len(files) |-> "pending"]
  /\ cur = 0 /\ queue = <<>> /\ visited = <<>> /\ seen = <<>>
  /\ returned = FALSE
  /\ authPolicies = <<>> /\ payloads = <<>> /\ serviceDependencies = <<>>
  /\ publicRoutes = <<>> /\ internalRoutes = <<>>
  /\ businessServices = <<>> /\ utilityServices = <<>>
  /\ models = <<>> /\ modelSchemas = <<>>
  /\ utilsByDomain = <<>> /\ utilsFiles = <<>>
  /\ summary = EmptySummary
  /\ limited = FALSE

\* a run of analyze(): no name is being normalised on its own
InitRun(order, proj, arg) ==
  /\ InitCollectors(order, proj, arg)
  /\ raw = None /\ role = None /\ canonical = <<>>
  /\ fields = <<>> /\ pass = None

\* one collector's extract() over one of the file lists texts, the limit
\* being the default
InitScan(name, texts) ==
  \E t \in texts : InitRun(<<name>>, [c \in {name} |-> t], None)

\* AuthPolicyExtractor.extract over one route file
InitAuth == InitScan("auth", {<<RouteFile(c)>> : c \in AuthFileTexts})

NextAuth ==
  \/ \E f \in 1..Len(files) : StartScan(f)
  \/ \E f \in 1..Len(files) : ReadError(f)
  \/ AuthVisit
  \/ EndScan
  \/ Return

SpecAuth == InitAuth /\ [][NextAuth]_vars

\* PayloadExtractor.extract over one route file
InitPayload == InitScan("payload", {<<RouteFile(c)>> : c \in PayloadFileTexts})

NextPayload ==
  \/ \E f \in 1..Len(files) : StartScan(f)
  \/ \E f \in 1..Len(files) : ReadError(f)
  \/ PayloadVisit
  \/ EndScan
  \/ Return

SpecPayload == InitPayload /\ [][NextPayload]_vars

\* extract() of either route collector over NFiles files: the scans are
\* started together and each analysis runs when its own read completes
InitMerge ==
  \/ InitScan("auth", MergeAuthFiles)
  \/ InitScan("payload", MergePayloadFiles)

NextMerge ==
  \/ \E f \in 1..Len(files) : StartScan(f)
  \/ \E f \in 1..Len(files) : ReadError(f)
  \/ AuthVisit
  \/ PayloadVisit
  \/ EndScan
  \/ Return

SpecMerge == InitMerge /\ [][NextMerge]_vars

\* ServiceInteractionExtractor.extract over one service file
InitDeps == InitScan("deps", {<<c>> : c \in ServiceFiles})

NextDeps ==
  \/ \E f \in 1..Len(files) : StartScan(f)
  \/ \E f \in 1..Len(files) : ReadError(f)
  \/ DepsVisit
  \/ EndScan
  \/ Return

SpecDeps == InitDeps /\ [][NextDeps]_vars

\* ServiceInteractionExtractor.extract over NFiles service files
InitDepsMerge == InitScan("deps", MergeServiceFiles)

SpecDepsMerge == InitDepsMerge /\ [][NextDeps]_vars

\* extract() of one of the name collectors (ApiRouteExtractor,
\* ServiceClassifier, DbModelExtractor, UtilityAnalyzer) over NFiles files,
\* followed by applyLimits
InitCollect ==
  \E name \in {"routes", "services", "models", "utils"} :
    \E t \in CollectFiles(name), arg \in LimitArgs :
      InitRun(<<name>>, [c \in {name} |-> t], arg)

NextCollect ==
  \/ \E f \in 1..Len(files) : StartScan(f)
  \/ \E f \in 1..Len(files) : ReadError(f)
  \/ RouteVisit
  \/ ServiceVisit
  \/ ModelVisit
  \/ UtilVisit
  \/ EndScan
  \/ Return
  \/ ApplyLimits

SpecCollect == InitCollect /\ [][NextCollect]_vars

\* a whole run of analyze() on the project, under any --limit argument
InitAnalyze == \E arg \in AnyLimitArgs : InitRun(AnalyzeOrder, Project, arg)

NextAnalyze ==
  \/ \E f \in 1..Len(files) : StartScan(f)
  \/ \E f \in 1..Len(files) : ReadError(f)
  \/ ServiceVisit
  \/ RouteVisit
  \/ ModelVisit
  \/ UtilVisit
  \/ DepsVisit
  \/ PayloadVisit
  \/ AuthVisit
  \/ EndScan
  \/ Return
  \/ NextCollector
  \/ ApplyLimits

SpecAnalyze == InitAnalyze /\ [][NextAnalyze]_vars

\* where the run stands: every step of a run changes it
control == <<collector, todo, status, cur, Len(queue), returned, limited>>

\* a pending file read of the running collector fails or succeeds
ReadSettles == \E f \in 1..Len(files) : ReadError(f) \/ StartScan(f)

\* a continuation that is ready runs: the analysis that has its text, the
\* join of the settled scans, the code after an await of analyze()
Continues ==
  \/ ServiceVisit \/ RouteVisit \/ ModelVisit \/ UtilVisit
  \/ DepsVisit \/ PayloadVisit \/ AuthVisit
  \/ EndScan \/ Return \/ NextCollector \/ ApplyLimits

\* the same run when every file read settles and the event loop runs every
\* continuation that is ready
FairAnalyze == SpecAnalyze /\ WF_control(ReadSettles) /\ WF_control(Continues)


\* the name the next normalisation is applied to
Current == IF canonical = <<>> THEN raw ELSE canonical[Len(canonical)]

\* ServiceInteractionExtractor.normalizeServiceName applied to the raw name
\* of a service or controller, then to its own result
NormalizeServiceName ==
  /\ role \in {"service", "controller"}
  /\ Len(canonical) < MaxApply
  /\ canonical' = Append(canonical, normalizeServiceName(Current))
  /\ UNCHANGED <<raw, role, collector, files, status, cur, queue, visited, seen, returned, authPolicies, payloads, serviceDependencies, nameSets, utilLists, pipeline, summary, modelSchemas, parsing>>

\* DbModelExtractor.capitalize applied to the raw name of a model, then to
\* its own result
Capitalize ==
  /\ role = "model"
  /\ Len(canonical) < MaxApply
  /\ canonical' = Append(canonical, capitalize(Current))
  /\ UNCHANGED <<raw, role, collector, files, status, cur, queue, visited, seen, returned, authPolicies, payloads, serviceDependencies, nameSets, utilLists, pipeline, summary, modelSchemas, parsing>>

\* the name normalisations on their own, over the raw names and the roles
InitNames ==
  \E r \in RawNames, k \in Roles :
    /\ InitCollectors(<<"deps">>, [c \in {"deps"} |-> <<>>], None)
    /\ raw = r /\ role = k /\ canonical = <<>>
    /\ fields = <<>> /\ pass = None

NextNames ==
  \/ NormalizeServiceName
  \/ Capitalize

SpecNames == InitNames /\ [][NextNames]_vars

(***************************************************************************)
(* The schema parsers on their own: a parser is handed a schema body (or   *)
(* the text of a class file) and fills its field map in one run.           *)
(***************************************************************************)
MaxFields == 2

\* field declarations of a document schema, in both forms
FieldDecls ==
  <<"email: { type: String, required: true }", "email: String", "name: String",
    "age: { type: Number, default: 0 }", "age: Number", "tags: [String]">>

\* property declarations of an entity class, decorated and plain
PropertyDecls ==
  <<"  @Column({ nullable: false }) name: string;", "  name: string;", "  id: number;",
    "  @Column() email: string | null;", "  email: Date;", "  private secret: string;">>

\* the texts made of one to MaxFields declarations of decls, sep between them
DeclTexts(decls, sep) ==
  {JoinText(d, sep) : d \in UNION {[1..n -> Range(decls)] : n \in 1..MaxFields}}

SchemaBodies == DeclTexts(FieldDecls, ", ")

EntityName == "User"

EntityFiles == {"@Entity()\nclass User {\n" \o b \o "\n}" : b \in DeclTexts(PropertyDecls, "\n")}

SchemaParsers == {"mongooseFields", "mongooseSchema", "typeorm"}

\* what the first loop of the parser leaves in the field map
FirstLoop(text, parser) ==
  IF parser = "typeorm" THEN ColumnPass(<<>>, ColumnMatches(ClassBody(text, EntityName)))
  ELSE DetailedPass(<<>>, DetailedMatches(text), parser)

\* DbModelExtractor.parseMongooseFields on the schema body
ParseMongooseFields ==
  /\ role = "mongooseFields" /\ pass = None
  /\ fields' = parseMongooseFields(raw)
  /\ pass' = "simple"
  /\ UNCHANGED <<collector, files, status, cur, queue, visited, seen, returned, authPolicies, payloads, serviceDependencies, nameSets, utilLists, pipeline, summary, modelSchemas, naming>>

\* SchemaSnapshotExtractor.parseMongooseSchema on the schema body
ParseMongooseSchema ==
  /\ role = "mongooseSchema" /\ pass = None
  /\ fields' = parseMongooseSchema(raw)
  /\ pass' = "simple"
  /\ UNCHANGED <<collector, files, status, cur, queue, visited, seen, returned, authPolicies, payloads, serviceDependencies, nameSets, utilLists, pipeline, summary, modelSchemas, naming>>

\* DbModelExtractor.parseTypeORMSchema on the class file
ParseTypeORMSchema ==
  /\ role = "typeorm" /\ pass = None
  /\ fields' = parseTypeORMSchema(raw, EntityName)
  /\ pass' = "simple"
  /\ UNCHANGED <<collector, files, status, cur, queue, visited, seen, returned, authPolicies, payloads, serviceDependencies, nameSets, utilLists, pipeline, summary, modelSchemas, naming>>

InitFields ==
  \E k \in SchemaParsers :
    \E t \in IF k = "typeorm" THEN EntityFiles ELSE SchemaBodies :
      /\ InitCollectors(<<"models">>, [c \in {"models"} |-> <<>>], None)
      /\ raw = t /\ role = k /\ canonical = <<>>
      /\ fields = <<>> /\ pass = None

NextFields ==
  \/ ParseMongooseFields
  \/ ParseMongooseSchema
  \/ ParseTypeORMSchema

SpecFields == InitFields /\ [][NextFields]_vars

(***************************************************************************)
(* The type normalisations on their own.  The document and relational      *)
(* dialects read the type token in a field definition; the schema-file and *)
(* class dialects are handed the token their field pattern captured.       *)
(***************************************************************************)
Namespaces == {"", "DataTypes."}

TypeWords ==
  {"", "String", "STRING", "INTEGER", "BLOB", "Int", "Decimal", "string", "Buffer", "constructor"}

Marks == {"", "?", "[]", "(255)"}

TypeTokens == {ns \o w \o m : ns \in Namespaces, w \in TypeWords, m \in Marks}

TypeDefinitions == {"type: " \o t : t \in TypeTokens}

Dialects == {"mongoose", "sequelize", "prisma", "typescript"}

\* the fixed table of the dialect
TypeTable(dialect) ==
  CASE dialect = "mongoose" -> mongooseTypeMap
    [] dialect = "sequelize" -> sequelizeTypeMap
    [] dialect = "prisma" -> prismaTypeMap
    [] dialect = "typescript" -> typeScriptTypeMap

\* the type token the dialect finds in the text, None when it finds none
TypeToken(text, dialect) ==
  CASE dialect = "mongoose" -> KeyToken(text, "type:", Letters \o ".")
    [] dialect = "sequelize" -> KeyToken(text, "type:", Letters \o ".()")
    [] OTHER -> IF text = "" THEN None ELSE text

\* DbModelExtractor.parseMongooseFieldDefinition on a field definition
ParseMongooseFieldDefinition ==
  /\ role = "mongoose" /\ canonical = <<>>
  /\ canonical' = <<parseMongooseFieldDefinition(raw)>>
  /\ UNCHANGED <<raw, role, collector, files, status, cur, queue, visited, seen, returned, authPolicies, payloads, serviceDependencies, nameSets, utilLists, pipeline, summary, modelSchemas, parsing>>

\* DbModelExtractor.parseSequelizeFieldDefinition on a field definition
ParseSequelizeFieldDefinition ==
  /\ role = "sequelize" /\ canonical = <<>>
  /\ canonical' = <<parseSequelizeFieldDefinition(raw)>>
  /\ UNCHANGED <<raw, role, collector, files, status, cur, queue, visited, seen, returned, authPolicies, payloads, serviceDependencies, nameSets, utilLists, pipeline, summary, modelSchemas, parsing>>

\* DbModelExtractor.normalizePrismaType on a captured token
NormalizePrismaType ==
  /\ role = "prisma" /\ canonical = <<>>
  /\ canonical' = <<normalizePrismaType(raw)>>
  /\ UNCHANGED <<raw, role, collector, files, status, cur, queue, visited, seen, returned, authPolicies, payloads, serviceDependencies, nameSets, utilLists, pipeline, summary, modelSchemas, parsing>>

\* DbModelExtractor.normalizeTypeScriptType on a captured token
NormalizeTypeScriptType ==
  /\ role = "typescript" /\ canonical = <<>>
  /\ canonical' = <<normalizeTypeScriptType(raw)>>
  /\ UNCHANGED <<raw, role, collector, files, status, cur, queue, visited, seen, returned, authPolicies, payloads, serviceDependencies, nameSets, utilLists, pipeline, summary, modelSchemas, parsing>>

InitTypes ==
  \E k \in Dialects :
    \E t \in IF k \in {"mongoose", "sequelize"} THEN TypeDefinitions ELSE TypeTokens :
      /\ InitCollectors(<<"models">>, [c \in {"models"} |-> <<>>], None)
      /\ raw = t /\ role = k /\ canonical = <<>>
      /\ fields = <<>> /\ pass = None

NextTypes ==
  \/ ParseMongooseFieldDefinition
  \/ ParseSequelizeFieldDefinition
  \/ NormalizePrismaType
  \/ NormalizeTypeScriptType

SpecTypes == InitTypes /\ [][NextTypes]_vars

(***************************************************************************)
(* The route normalisation on its own, over declared paths made of literal *)
(* and parameterized segments, a trailing slash and a query string.        *)
(***************************************************************************)
MaxSegments == 2

PathSegments == <<"orders", "cancel", ":orderId", ":id", "[orderId]", "[id]">>

TrailingSlashes == {"", "/"}

QueryStrings == {"", "?x=1", "?next=/home"}

\* the declared paths of one to MaxSegments segments
DeclaredPaths ==
  {"/" \o JoinText(s, "/") \o t \o q :
     s \in UNION {[1..n -> Range(PathSegments)] : n \in 1..MaxSegments},
     t \in TrailingSlashes, q \in QueryStrings}

\* ApiRouteExtractor.normalizeRoute applied to the declared path
NormalizeRoute ==
  /\ role = "route" /\ canonical = <<>>
  /\ canonical' = <<normalizeRoute(raw)>>
  /\ UNCHANGED <<raw, role, collector, files, status, cur, queue, visited, seen, returned, authPolicies, payloads, serviceDependencies, nameSets, utilLists, pipeline, summary, modelSchemas, parsing>>

InitNormalize ==
  \E p \in DeclaredPaths :
    /\ InitCollectors(<<"routes">>, [c \in {"routes"} |-> <<>>], None)
    /\ raw = p /\ role = "route" /\ canonical = <<>>
    /\ fields = <<>> /\ pass = None

NextNormalize == NormalizeRoute

SpecNormalize == InitNormalize /\ [][NextNormalize]_vars

(***************************************************************************)
(* ApiRouteExtractor.extract over NFiles route files, each declaring one   *)
(* route.                                                                  *)
(***************************************************************************)
VisibilityPaths ==
  {"/admin/jobs", "/Admin", "/administrators", "/users/:admin", "/users", "/v1/superadmin",
   "/logs/:id", "/webhooks", "/", "/:a/:b", "/health", "/testing", "/:x/metrics/",
   "/orders/[id]/debug?x=1"}

RouteDeclFiles ==
  {[filename |-> "routes.js", content |-> "router.get('" \o p \o "', h);"] : p \in VisibilityPaths}

InitRoutes == InitScan("routes", [1..NFiles -> RouteDeclFiles])

NextRoutes ==
  \/ \E f \in 1..Len(files) : StartScan(f)
  \/ \E f \in 1..Len(files) : ReadError(f)
  \/ RouteVisit
  \/ EndScan
  \/ Return
  \/ ApplyLimits

SpecRoutes == InitRoutes /\ [][NextRoutes]_vars

(***************************************************************************)
(* Either route collector over one route file whose declarations have      *)
(* parameterized paths, trailing slashes and query strings.                *)
(***************************************************************************)
KeyPaths == {"/a", "/users/:id", "/users/:userId", "/users/[id]", "/orders/", "/a?x=1"}

KeyMiddleware == {"isAdmin", "validate(userSchema)"}

KeyRouteDecls == {RouteDecl("get", p, <<mw>>, TRUE) : p \in KeyPaths, mw \in KeyMiddleware}

KeyFileTexts == TextsOf(KeyRouteDecls, MaxStmts - 1)

InitKeys ==
  \/ InitScan("auth", {<<RouteFile(c)>> : c \in KeyFileTexts})
  \/ InitScan("payload", {<<RouteFile(c)>> : c \in KeyFileTexts})

SpecKeys == InitKeys /\ [][NextMerge]_vars

(***************************************************************************)
(* The route context lookup on its own: the analysis of one route file     *)
(* looks up the route of each middleware fragment of the file, in text     *)
(* order.                                                                  *)
(***************************************************************************)
ContextFileTexts == TextsOf(AuthStatements, MaxStmts - 1)

\* AuthPolicyExtractor.findRouteContext for the next fragment of the file
FindRouteContext ==
  /\ collector = "auth" /\ cur # 0 /\ queue # <<>>
  /\ visited' = Append(visited, [s |-> Head(queue).s,
                                 context |-> findRouteContext(files[cur].statements, Head(queue).s)])
  /\ queue' = Tail(queue)
  /\ UNCHANGED <<collector, files, status, cur, seen, returned, authPolicies, payloads, serviceDependencies, nameSets, utilLists, pipeline, summary, modelSchemas, naming, parsing>>

InitContext ==
  \E c \in ContextFileTexts :
    /\ args = [limit |-> None] /\ limit = parseLimit(None)
    /\ project = [k \in {"auth"} |-> <<RouteFile(c)>>]
    /\ collector = "auth" /\ todo = <<>>
    /\ files = <<RouteFile(c)>> /\ status = <<"scanning">>
    /\ cur = 1 /\ queue = Fragments(c) /\ visited = <<>> /\ seen = <<>>
    /\ returned = FALSE
    /\ authPolicies = <<>> /\ payloads = <<>> /\ serviceDependencies = <<>>
    /\ publicRoutes = <<>> /\ internalRoutes = <<>>
    /\ businessServices = <<>> /\ utilityServices = <<>>
    /\ models = <<>> /\ modelSchemas = <<>>
    /\ utilsByDomain = <<>> /\ utilsFiles = <<>>
    /\ summary = EmptySummary
    /\ limited = FALSE
    /\ raw = None /\ role = None /\ canonical = <<>>
    /\ fields = <<>> /\ pass = None

NextContext == FindRouteContext

SpecContext == InitContext /\ [][NextContext]_vars

(***************************************************************************)
(* DbModelExtractor.extract over model files that declare the same model   *)
(* name more than once, with and without fields.                           *)
(***************************************************************************)
DeclarationFiles ==
  { [filename |-> "schema.prisma", content |-> "model Apple {\n id Int\n}"],
    [filename |-> "Apple.js", content |-> "class Apple {}"],
    [filename |-> "User.ts", content |-> "class User {\n name: string;\n}"],
    [filename |-> "userModel.js",
     content |-> "const s = new mongoose.Schema({ email: String });\nmongoose.model('User', s);"] }

InitSchemas == InitScan("models", [1..NFiles -> DeclarationFiles])

NextSchemas ==
  \/ \E f \in 1..Len(files) : StartScan(f)
  \/ \E f \in 1..Len(files) : ReadError(f)
  \/ ModelVisit
  \/ EndScan
  \/ Return
  \/ ApplyLimits

SpecSchemas == InitSchemas /\ [][NextSchemas]_vars

(***************************************************************************)
(* Claims about the association of auth policies within one file           *)
(* (SpecAuth: one file, so the map is empty when its analysis starts).     *)
(***************************************************************************)
\* the analysis of a file has just run to its end; visited holds its visits
AnalysisEnded == cur = 0 /\ \E f \in 1..Len(files) : status[f] = "done"

VisitsOn(key, tier) == {i \in 1..Len(visited) : visited[i].key = key /\ visited[i].tier = tier}

KeyPath(key) == After(key, " ")

\* C1: a route key that received both a route-local and a file-global auth
\* contribution holds, once the file is analysed, a route-local one.
C1_RouteLocalBeatsFileGlobal ==
  AnalysisEnded =>
    \A key \in ObjKeys(authPolicies) :
      (VisitsOn(key, "local") # {} /\ VisitsOn(key, "global") # {}) =>
        \E i \in VisitsOn(key, "local") : ObjGet(authPolicies, key) = visited[i].policy

TierRank(tier) == CASE tier = "local" -> 1 [] tier = "path" -> 2 [] tier = "global" -> 3 [] OTHER -> 0

\* C2: within one file the fragments are visited tier by tier (every
\* route-local one before every path-scoped one, every path-scoped one before
\* every file-global one), and so a route with no route-local policy that a
\* path-scoped and a file-global fragment both cover ends with the path-scoped
\* policy.
C2_TierProcessingOrder ==
  /\ \A i, j \in 1..Len(visited) :
       (i < j /\ TierRank(visited[i].tier) > 0 /\ TierRank(visited[j].tier) > 0)
         => TierRank(visited[i].tier) <= TierRank(visited[j].tier)
  /\ AnalysisEnded =>
       \A key \in ObjKeys(authPolicies) :
         (/\ VisitsOn(key, "local") = {}
          /\ VisitsOn(key, "global") # {}
          /\ \E i \in VisitsOn(key, "path") :
               StartsWith(KeyPath(key), files[visited[i].src[1]].statements[visited[i].src[2]].path))
           => \E i \in VisitsOn(key, "path") : ObjGet(authPolicies, key) = visited[i].policy

\* C3: during the analysis of a file, a policy once stored for a route key is
\* never replaced.
C3_AuthFirstWriterWins ==
  [][\A key \in ObjKeys(authPolicies) :
       ObjGet(authPolicies', key) = ObjGet(authPolicies, key)]_vars

\* C4: a policy written on behalf of router.use('P', mw) goes only to routes
\* whose path starts with P.
C4_PathScopedStaysInScope ==
  \A i \in 1..Len(visited) :
    (visited[i].tier = "path" /\ visited[i].wrote)
      => StartsWith(KeyPath(visited[i].key),
                    files[visited[i].src[1]].statements[visited[i].src[2]].path)

\* the text with its router.use(<identifier>, mw) calls taken out; what
\* followed such a call on its line now starts that line
RECURSIVE WithoutDynamic(_, _)
WithoutDynamic(content, startsLine) ==
  IF content = <<>> THEN <<>>
  ELSE LET st == Head(content)
       IN  IF st.scope = "dynamic"
           THEN WithoutDynamic(Tail(content), startsLine \/ st.nl)
           ELSE <<[st EXCEPT !.nl = st.nl \/ startsLine]>>
                  \o WithoutDynamic(Tail(content), FALSE)

\* C5: a grouping call with a non-literal path contributes nothing: the map
\* is the one the file gives without that call.
C5_DynamicScopeDropped ==
  (AnalysisEnded /\ Len(files) = 1) =>
    authPolicies = ApplyAuthOps(<<>>, analyzeRouteFile(WithoutDynamic(files[1].statements, FALSE)))


(***************************************************************************)
(* Claims about the payload shapes of one file (SpecPayload).              *)
(***************************************************************************)
\* the request or response object stored for key in map p ({} when absent)
Shape(p, key, side) ==
  IF ~ObjHas(p, key) THEN <<>>
  ELSE IF side = "request" THEN ObjGet(p, key).request ELSE ObjGet(p, key).response

\* C6: payload field union.  No fragment's processing removes a field an
\* earlier fragment wrote to the request shape of a route key: every field
\* name of a stored request shape is still a field name of it after the step.
C6_PayloadFieldUnion ==
  [][\A key \in ObjKeys(payloads) :
       ObjKeys(Shape(payloads, key, "request"))
         \subseteq ObjKeys(Shape(payloads', key, "request"))]_vars

\* C7: payload field collision.  A field of a stored request (or response)
\* shape keeps the value written first: a later write to the same field
\* name of the same route key does not change it.
C7_PayloadFirstWriterKept ==
  [][\A key \in ObjKeys(payloads) : \A side \in {"request", "response"} :
       \A fld \in ObjKeys(Shape(payloads, key, side))
                    \cap ObjKeys(Shape(payloads', key, side)) :
         ObjGet(Shape(payloads', key, side), fld) = ObjGet(Shape(payloads, key, side), fld)]_vars

(***************************************************************************)
(* Claims about the merge of several files' contributions (SpecMerge).     *)
(***************************************************************************)
\* the association map file f yields when it is analysed on its own
Contribution(f) ==
  IF collector = "auth" THEN ApplyAuthOps(<<>>, analyzeRouteFile(files[f].statements))
  ELSE ApplyPayOps(<<>>, analyzeRouteFilePayloads(files[f].statements))

\* the collector's aggregate map
Aggregate == IF collector = "auth" THEN authPolicies ELSE payloads

\* the file whose analysis made the latest visit: analyses do not interleave,
\* so it is the file processed last among those that made any visit
LastProcessed == seen[Len(seen)].src[1]

\* C8: cross-file association merge.  When extract() has returned and two
\* files each contribute a record (auth policy or payload shape) for the same
\* route key, the aggregate holds for that key the contribution of the file
\* whose scan was processed last.
C8_LastFileProcessedWins ==
  returned =>
    \A f, g \in 1..Len(files) :
      (f # g /\ status[f] = "done" /\ status[g] = "done") =>
        \A key \in ObjKeys(Contribution(f)) \cap ObjKeys(Contribution(g)) :
          LastProcessed \in {f, g} =>
            ObjGet(Aggregate, key) = ObjGet(Contribution(LastProcessed), key)

(***************************************************************************)
(* Claims about the service dependency map (SpecDepsMerge, SpecDeps).      *)
(***************************************************************************)
\* the names of a list or set, compared case-insensitively
LowerNames(S) == {toLowerCase(d) : d \in S}

\* the dependency list stored for service S, as a set ({} when absent)
StoredDeps(S) ==
  IF ObjHas(serviceDependencies, S) THEN Range(ObjGet(serviceDependencies, S)) ELSE {}

\* C9: dependency union correctness.  When extract() has returned, for every
\* service name S some analysed file resolves to, serviceDependencies[S] is,
\* case-insensitively, the union of the dependency names found in all the
\* analysed files that resolve to S: no file's contribution is lost.
C9_DependencyUnion ==
  returned =>
    \A i \in 1..Len(seen) :
      LowerNames(StoredDeps(seen[i].key))
        = UNION {LowerNames(Range(seen[j].dependencies)) :
                   j \in {n \in 1..Len(seen) : seen[n].key = seen[i].key}}

\* C10: edge deduplication.  No two entries of a stored dependency list are
\* equal when compared case-insensitively: a dependency signalled by several
\* detectors appears once.
C10_EdgeDeduplication ==
  \A S \in ObjKeys(serviceDependencies) :
    LET list == ObjGet(serviceDependencies, S)
    IN  \A i, j \in 1..Len(list) :
          i # j => toLowerCase(list[i]) # toLowerCase(list[j])
(***************************************************************************)
(* Claims about the name collectors and the limit (SpecCollect).           *)
(***************************************************************************)
\* what the scan of file f adds, the file analysed on its own
ScanOf(f) ==
  CASE collector = "routes" -> analyzeApiRoutes(files[f])
    [] collector = "services" -> classifyFile(files[f])
    [] collector = "models" -> analyzeModelFile(files[f])
    [] collector = "utils" -> analyzeUtilFile(files[f], limit)

\* the additions of the files of F, taken in the order the files are listed
OpsOf(F) ==
  Concat([f \in 1..Len(files) |-> IF f \in F THEN ScanOf(f) ELSE <<>>])

\* the names among ops that go to the set called target, in order
RECURSIVE NamesFor(_, _)
NamesFor(ops, target) ==
  IF ops = <<>> THEN <<>>
  ELSE (IF Head(ops).target = target THEN <<Head(ops).name>> ELSE <<>>)
         \o NamesFor(Tail(ops), target)

RECURSIVE FoldByDomain(_, _)
FoldByDomain(byDomain, ops) ==
  IF ops = <<>> THEN byDomain
  ELSE FoldByDomain(PushByDomain(byDomain, Head(ops)), Tail(ops))

RECURSIVE FoldFiles(_, _)
FoldFiles(list, ops) ==
  IF ops = <<>> THEN list ELSE FoldFiles(PushFile(list, Head(ops)), Tail(ops))

\* the document a name collector's run leaves when its scans add ops, in order
DocumentFrom(ops) ==
  LET List(target) == SortedSlice(SetAddAll(<<>>, NamesFor(ops, target)), limit)
  IN  CASE collector = "routes" ->
             [EmptySummary EXCEPT !.publicRoutes = List("publicRoutes"),
                                  !.internalRoutes = List("internalRoutes")]
        [] collector = "services" ->
             [EmptySummary EXCEPT !.businessServices = List("businessServices"),
                                  !.utilityServices = List("utilityServices")]
        [] collector = "models" -> [EmptySummary EXCEPT !.dbModels = List("models")]
        [] collector = "utils" ->
             [EmptySummary EXCEPT !.utils = [byDomain |-> FoldByDomain(<<>>, ops),
                                             files |-> FoldFiles(<<>>, ops)]]

\* the document of the run in which the scans of the files of F complete in
\* the order the files are listed
DocumentOf(F) == DocumentFrom(OpsOf(F))

\* the files whose scan ran to its end
Done == {f \in 1..Len(files) : status[f] = "done"}

\* C11: determinism.  For a fixed file set with fixed contents whose reads
\* all succeed, the document analyze() returns is the same for every order in
\* which the concurrently started scans complete: it is the document of the
\* run in which they complete in the order the files are listed.
C11_Determinism ==
  (limited /\ Done = 1..Len(files)) => summary = DocumentOf(1..Len(files))

\* the names the scans of the files of F contribute to the set called target
Contributed(F, target) == UNION {Range(NamesFor(ScanOf(f), target)) : f \in F}

\* the lists the running name collector emits, each with the set it is made from
EmittedLists ==
  CASE collector = "routes" ->
         {[target |-> "publicRoutes", list |-> summary.publicRoutes],
          [target |-> "internalRoutes", list |-> summary.internalRoutes]}
    [] collector = "services" ->
         {[target |-> "businessServices", list |-> summary.businessServices],
          [target |-> "utilityServices", list |-> summary.utilityServices]}
    [] collector = "models" -> {[target |-> "models", list |-> summary.dbModels]}
    [] OTHER -> {}

\* C12 as stated: order-irrelevant name sets.  When a name collector has
\* returned, each emitted list (business and utility services, public and
\* internal routes, models) holds exactly the plain union of the names the
\* scanned files contribute, whatever the completion order of the scans.
C12_EmittedIsPlainUnion ==
  returned =>
    \A e \in EmittedLists : Range(e.list) = Contributed(Done, e.target)

\* C12 amended: each emitted list is the plain union of the per-file
\* contributions, sorted and cut to the limit (the whole union when it has at
\* most `limit` names), and so is the same for every completion order.
C12_EmittedIsSortedUnionPrefix ==
  returned =>
    LET ops == OpsOf(Done)
    IN  \A e \in EmittedLists :
          e.list = SliceTo(SortNames(Range(NamesFor(ops, e.target))), limit)

\* two files contribute different names to one list and the scan of the
\* second file completed before that of the first
C12_Witness ==
  /\ returned /\ collector \in {"routes", "services", "models"}
  /\ Len(seen) > 1 /\ seen[1].src[1] = 2 /\ seen[Len(seen)].src[1] = 1
  /\ \E e \in EmittedLists :
       /\ Len(e.list) > 1
       /\ Range(e.list) \cap Range(NamesFor(ScanOf(1), e.target)) # {}
       /\ Range(e.list) \cap Range(NamesFor(ScanOf(2), e.target)) # {}
       /\ Range(NamesFor(ScanOf(1), e.target)) # Range(NamesFor(ScanOf(2), e.target))

\* the files whose read failed
Failed == {f \in 1..Len(files) : status[f] = "failed"}

\* the files that made a visit, in the order their scans were processed
RECURSIVE FilesIn(_)
FilesIn(log) ==
  IF log = <<>> THEN <<>>
  ELSE LET before == FilesIn(SubSeq(log, 1, Len(log) - 1))
           f == log[Len(log)].src[1]
       IN  IF f \in Range(before) THEN before ELSE Append(before, f)

\* C13: partial-failure isolation.  When a collector has returned although
\* the read of some file failed, the failing files have contributed nothing:
\* the result is exactly that of a run over the file set without them, the
\* scans of the other files completing in the same order.
C13_FailedReadIsolated ==
  (returned /\ Failed # {}) =>
    summary = DocumentFrom(Concat([i \in 1..Len(FilesIn(seen)) |-> ScanOf(FilesIn(seen)[i])]))

\* a collector returned a non-empty result with one read failed and another
\* file scanned
C13_Witness ==
  /\ returned /\ Failed # {} /\ Done # {}
  /\ seen # <<>> /\ summary # EmptySummary

\* out is the first min(L, |N|) names of the set N in lexicographic order:
\* it has that many names, all of N, in strictly increasing order, and every
\* name of N it leaves out is greater than all it keeps
IsLexPrefix(out, N, L) ==
  /\ Len(out) = (IF L < Cardinality(N) THEN L ELSE Cardinality(N))
  /\ Range(out) \subseteq N
  /\ \A i \in 1..(Len(out) - 1) : StrLess(out[i], out[i + 1])
  /\ \A x \in N \ Range(out) : \A i \in 1..Len(out) : StrLess(out[i], x)

\* C15: under a positive limit L the document analyze() emits holds, as
\* dbModels, the first min(L, |N|) of the discovered model names N in
\* lexicographic order, and likewise for businessServices, utilityServices,
\* publicRoutes and internalRoutes.
C15_LexicographicPrefix ==
  (limited /\ ~limit.isNaN /\ limit.value > 0) =>
    /\ IsLexPrefix(summary.dbModels, Range(models), limit.value)
    /\ IsLexPrefix(summary.businessServices, Range(businessServices), limit.value)
    /\ IsLexPrefix(summary.utilityServices, Range(utilityServices), limit.value)
    /\ IsLexPrefix(summary.publicRoutes, Range(publicRoutes), limit.value)
    /\ IsLexPrefix(summary.internalRoutes, Range(internalRoutes), limit.value)

\* limit 2 on the discovered models Zebra, Apple, Mango emits Apple, Mango
C15_Witness ==
  /\ limited /\ limit = Num(2)
  /\ Range(models) = {"Zebra", "Apple", "Mango"}
  /\ summary.dbModels = <<"Apple", "Mango">>

(***************************************************************************)
(* Claims about a whole run of analyze() (SpecAnalyze).                    *)
(***************************************************************************)
\* the collectors' shared sets, lists and maps
Shared == <<authPolicies, payloads, serviceDependencies, nameSets, utilLists>>

PositiveLimit == ~limit.isNaN /\ limit.value > 0

\* the five name arrays of the document
NameArrays(s) ==
  {s.businessServices, s.utilityServices, s.publicRoutes, s.internalRoutes, s.dbModels}

\* the array a is in lexicographic order and has at most `limit` elements
SortedAndLimited(a) ==
  /\ Len(a) <= limit.value
  /\ \A i \in 1..(Len(a) - 1) : a[i] = a[i + 1] \/ StrLess(a[i], a[i + 1])

\* C16: every array of the document analyze() emits is sorted
\* lexicographically and has at most `limit` elements: the name arrays, each
\* dependency list of serviceDependencies, each function list of the utility
\* files, and the list of utility files has at most `limit` entries.
C16_AllArraysSortedAndLimited ==
  (limited /\ PositiveLimit) =>
    /\ \A a \in NameArrays(summary) : SortedAndLimited(a)
    /\ \A k \in ObjKeys(summary.serviceDependencies) :
         SortedAndLimited(ObjGet(summary.serviceDependencies, k))
    /\ Len(summary.utils.files) <= limit.value
    /\ \A i \in 1..Len(summary.utils.files) : SortedAndLimited(summary.utils.files[i].functions)

\* C17: after analyze() each keyed category of the document
\* (serviceDependencies, apiPayloads, authPolicies) has at most `limit`
\* entries, as do the array categories.
C17_EveryCategoryLimited ==
  (limited /\ PositiveLimit) =>
    /\ Len(summary.serviceDependencies) <= limit.value
    /\ Len(summary.apiPayloads) <= limit.value
    /\ Len(summary.authPolicies) <= limit.value
    /\ \A a \in NameArrays(summary) : Len(a) <= limit.value

\* the --limit argument is given and is not the decimal text of a positive
\* integer
Malformed(arg) ==
  arg # None /\ (arg = "" \/ DigitPrefix(arg) # arg \/ DigitsValue(arg) = 0)

\* the first min(100, n) of the n names of set, in lexicographic order
DefaultPrefix(set) == SliceTo(SortNames(Range(set)), parseInt("100"))

\* C18: when the --limit argument is not a valid positive integer the run
\* ends and its document is the one of limit 100: every array category is
\* the first min(100, n) of its names in lexicographic order.
C18_MalformedLimitIsDefault ==
  (limited /\ Malformed(args.limit)) =>
    /\ summary.dbModels = DefaultPrefix(models)
    /\ summary.businessServices = DefaultPrefix(businessServices)
    /\ summary.utilityServices = DefaultPrefix(utilityServices)
    /\ summary.publicRoutes = DefaultPrefix(publicRoutes)
    /\ summary.internalRoutes = DefaultPrefix(internalRoutes)


C19_Idempotent == \A i \in 2..Len(canonical) : canonical[i] = canonical[1]

\* the service name order was normalised to OrderService, twice
C19_Witness ==
  /\ role = "service" /\ raw = "order"
  /\ canonical = <<"OrderService", "OrderService">>

\* the name ends, whatever the case of its letters, with Service or Controller
AcceptedSuffix(name) ==
  EndsWith(toLowerCase(name), "service") \/ EndsWith(toLowerCase(name), "controller")

\* C20: for a service the canonical name is the capitalized name, with
\* Service appended exactly when the capitalized name does not already end
\* (case-insensitively) with Service or Controller; so every canonical
\* service name ends with one of them.
C20_SuffixRule ==
  (role = "service" /\ canonical # <<>>) =>
    /\ canonical[1] = IF AcceptedSuffix(capitalize(raw)) THEN capitalize(raw)
                      ELSE capitalize(raw) \o "Service"
    /\ AcceptedSuffix(canonical[1])

(***************************************************************************)
(* Claims on the schema parsers.                                           *)
(***************************************************************************)
\* C21: when a parser has run, every field its first loop populated (the
\* detailed per-field form, or the decorated column) still holds the value
\* that loop gave it: the simple one-line form of the same name has not
\* changed it.
C21_DetailedKept ==
  pass = "simple" =>
    \A i \in 1..Len(FirstLoop(raw, role)) :
      ObjGet(fields, FirstLoop(raw, role)[i].k) = FirstLoop(raw, role)[i].v

\* C21 witness: the parser has run on a body that gives email in the detailed
\* form and then in the simple form, and email is still 'String (required)'.
C21_Witness ==
  /\ pass = "simple" /\ role = "mongooseFields"
  /\ raw = "email: { type: String, required: true }, email: String"
  /\ ObjGet(fields, "email") = "String (required)"

\* the type the claim gives a token: its mapped type when the table of the
\* dialect has it, the token itself otherwise, 'Unknown' without a token
ClaimedType(token, table) ==
  IF token = None THEN "Unknown"
  ELSE IF ObjHas(table, token) THEN ObjGet(table, token)
  ELSE token

\* C22: the type a dialect gives is the mapped type of the token it found
\* when its table has the token, the token unchanged when the table does not
\* have it, and 'Unknown' only when no token was found.
C22_MappedOrVerbatim ==
  canonical # <<>> /\ role \in Dialects =>
    canonical[1] = ClaimedType(TypeToken(raw, role), TypeTable(role))

\* C29: once a non-empty field map is stored for a model name, no later
\* step of DbModelExtractor replaces it by an empty field map.
C29_SchemaNotLost ==
  [][\A i \in 1..Len(modelSchemas) :
       modelSchemas[i].v # <<>> => ObjGet(modelSchemas', modelSchemas[i].k) # <<>>]_vars

(***************************************************************************)
(* Claims on the route paths.                                              *)
(***************************************************************************)
\* a segment written :name or [name]
IsParameter(segment) ==
  \/ StartsWith(segment, ":") /\ Len(segment) > 1
  \/ StartsWith(segment, "[") /\ EndsWith(segment, "]")

\* the segments of the path, each parameterized one replaced by :id
Placeholders(segments) ==
  [i \in 1..Len(segments) |-> IF IsParameter(segments[i]) THEN ":id" ELSE segments[i]]

\* the path the claim gives: the query string cut off, every parameterized
\* segment replaced by :id, the trailing slashes removed
ClaimedRoute(path) ==
  OrSlash(StripSlashes(JoinText(Placeholders(Split(Before(path, "?"), "/")), "/")))

\* C23: the normalized path is the declared path without its query string
\* and trailing slashes, every parameterized segment (either syntax, any
\* name) being :id, so that paths differing only in parameter names or
\* syntax have one normalized path.
C23_NormalizedIsClaimed ==
  role = "route" /\ canonical # <<>> => canonical[1] = ClaimedRoute(raw)

InternalKeywords ==
  {"admin", "internal", "debug", "metrics", "analytics", "cron", "webhook", "logs"}

\* a segment matches a keyword when it begins with it, letter case ignored
\* (the keyword webhook marks /webhooks)
MatchesKeyword(segment) == \E kw \in InternalKeywords : StartsWith(toLowerCase(segment), kw)

HasKeywordSegment(path) ==
  \E i \in 1..Len(Split(path, "/")) : MatchesKeyword(Split(path, "/")[i])

\* a keyword carried by a segment of the declared path that is not a parameter
CarriesKeyword(declared) ==
  \E i \in 1..Len(Split(Before(declared, "?"), "/")) :
    /\ ~IsParameter(Split(Before(declared, "?"), "/")[i])
    /\ MatchesKeyword(Split(Before(declared, "?"), "/")[i])

\* the paths the route patterns capture in the file
Declared(file) ==
  Concat([r \in 1..Len(routeRegexes) |-> CallArgs(file.content, routeRegexes[r])])

\* C24: a stored route is in internalRoutes exactly when a segment of it (the
\* normalized path) matches a keyword, and every valid route whose declared
\* path carries a keyword in a segment that is not a parameter is stored as
\* internal once its file has been analysed.
C24_InternalIffKeywordSegment ==
  /\ \A i \in 1..Len(internalRoutes) : HasKeywordSegment(internalRoutes[i])
  /\ \A i \in 1..Len(publicRoutes) : ~HasKeywordSegment(publicRoutes[i])
  /\ \A f \in 1..Len(files) :
       collector = "routes" /\ status[f] = "done" =>
         \A i \in 1..Len(Declared(files[f])) :
           /\ CarriesKeyword(Declared(files[f])[i])
           /\ isValid(normalizeRoute(Declared(files[f])[i]))
           => normalizeRoute(Declared(files[f])[i]) \in Range(internalRoutes)

\* C24 witness: extract has returned with /:id/metrics, declared /:x/metrics/,
\* among the internal routes and /users/:id, declared /users/:admin, among
\* the public ones.
C24_Witness ==
  /\ collector = "routes" /\ returned
  /\ "/:id/metrics" \in Range(internalRoutes)
  /\ "/users/:id" \in Range(publicRoutes)

\* the routes the extractor holds or has handed to the summary
EmittedRoutes ==
  Range(publicRoutes) \cup Range(internalRoutes)
    \cup Range(summary.publicRoutes) \cup Range(summary.internalRoutes)

OnlyIdSegments(route) ==
  /\ Len(route) > 1
  /\ \A i \in 2..Len(Split(route, "/")) : Split(route, "/")[i] = ":id"

\* C28: no route is in both sets, and no emitted route is /, is made of :id
\* segments only, or starts with /middleware, /test or /health.
C28_ExclusiveAndFiltered ==
  /\ Range(publicRoutes) \cap Range(internalRoutes) = {}
  /\ Range(summary.publicRoutes) \cap Range(summary.internalRoutes) = {}
  /\ \A r \in EmittedRoutes :
       /\ r # "/"
       /\ ~OnlyIdSegments(r)
       /\ \A p \in {"/middleware", "/test", "/health"} : ~StartsWith(r, p)

\* C28 witness: extract has returned a public and an internal route from
\* files that also declared /, /:a/:b and /health.
C28_Witness ==
  /\ collector = "routes" /\ returned
  /\ \E f \in 1..Len(files) : status[f] = "done" /\ Declared(files[f]) = <<"/:a/:b">>
  /\ \E f \in 1..Len(files) : status[f] = "done" /\ Declared(files[f]) = <<"/Admin">>
  /\ summary.internalRoutes = <<"/Admin">>
  /\ summary.publicRoutes = <<>>

\* the key reads METHOD path, the path being one normalizeRoute leaves as it is
NormalizedKey(key) ==
  /\ Includes(key, " ")
  /\ Before(key, " ") = toUpperCase(Before(key, " "))
  /\ normalizeRoute(After(key, " ")) = After(key, " ")

\* C25: every key of authPolicies and of the payloads is METHOD path with a
\* normalized path: parameters collapsed to :id, no trailing slash, no query
\* string.
C25_KeysAreNormalized ==
  /\ \A k \in ObjKeys(authPolicies) : NormalizedKey(k)
  /\ \A k \in ObjKeys(payloads) : NormalizedKey(k)

\* the key of the last route declaration at or before statement s (a
\* fragment of a route declaration stands after the path of that
\* declaration), None when there is none
NearestRoute(content, s) ==
  IF \E j \in 1..s : content[j].kind = "route"
  THEN LET j == CHOOSE j \in 1..s :
                  /\ content[j].kind = "route"
                  /\ \A i \in (j + 1)..s : content[i].kind # "route"
       IN  fullRoute(content[j].method, content[j].path)
  ELSE None

\* C26: every lookup made for a fragment has given the key of the nearest
\* route declaration that precedes the fragment in the file, and null only
\* when no route declaration precedes it.
C26_ContextIsNearestRoute ==
  collector = "auth" /\ cur # 0 =>
    \A i \in 1..Len(visited) :
      "context" \in DOMAIN visited[i] =>
        visited[i].context = NearestRoute(files[cur].statements, visited[i].s)

\* C27: after ServiceClassifier.extract has returned, no service name is in
\* both of the lists it returned, businessServices and utilityServices.
C27_ClassificationExclusive ==
  collector = "services" /\ returned =>
    Range(summary.businessServices) \cap Range(summary.utilityServices) = {}

====
